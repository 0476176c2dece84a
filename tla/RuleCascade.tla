---------------------------- MODULE RuleCascade ----------------------------
(***************************************************************************)
(* How ESLint makes the configuration of a file: it takes the blocks that  *)
(* match the file, in order, and where two of them set one rule the later  *)
(* replaces what the earlier asked for.                                    *)
(***************************************************************************)
EXTENDS Naturals, RuleBlocks

VARIABLES file,   \* the kind of file a configuration is made for
          taken,  \* how many of the blocks are dealt with
          config, \* the checks of each rule
          asked   \* history: all the checks a block asked for, by rule

cascadeVars == <<file, taken, config, asked>>

CascadeInit ==
  /\ file \in Kinds
  /\ taken = 0
  /\ config = NoOptions
  /\ asked = NoOptions

\* Who switches a rule off takes all its checks back.
TakeBlock ==
  LET block == Blocks[taken + 1]
      all(r) == IF r \in DOMAIN asked THEN asked[r] ELSE {}
  IN /\ taken < Len(Blocks)
     /\ taken' = taken + 1
     /\ config' = Override(config, block, file)
     /\ asked' = IF file \in block.files
                 THEN Over([r \in DOMAIN block.options |->
                              IF block.options[r] = {} THEN {}
                              ELSE block.options[r] \cup all(r)], asked)
                 ELSE asked
     /\ UNCHANGED file

CascadeNext == TakeBlock

CascadeSpec == CascadeInit /\ [][CascadeNext]_cascadeVars

CascadeTypeOK ==
  /\ file \in Kinds
  /\ taken \in 0..Len(Blocks)
  /\ DOMAIN config = DOMAIN asked
  /\ \A r \in DOMAIN config : config[r] \subseteq asked[r]

\* eslint.config.mjs:34-36: a rule holds one set of options per file, and a
\* later block silently replaces an earlier one.  No check of any block is lost
\* that way, unless the file is reported whatever it holds.
NoCheckIsReplaced ==
  \A r \in DOMAIN asked :
    config[r] = asked[r] \/ config[r] = {"misplaced"}

=============================================================================
