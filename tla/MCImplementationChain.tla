------------------------ MODULE MCImplementationChain -----------------------
EXTENDS ImplementationChain

\* two stories of one task each: every task change is a story boundary
MCStory == <<"story1", "story2">>

\* IMPLEMENTATION_PROVIDER_CHAINS: the longest chain; the others are its tails
MCChains == {<<"codex-headless", "claude-headless", "claude-main">>}
=============================================================================
