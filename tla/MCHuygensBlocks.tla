-------------------------- MODULE MCHuygensBlocks --------------------------
EXTENDS HuygensBlocksProperties
=============================================================================
