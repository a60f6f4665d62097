--------------------------- MODULE MCStageSequence ---------------------------
(***************************************************************************)
(* StageSequence for TLC: both drivers over one set of files, whole and    *)
(* partial lists of stages, and stages the operator starts by themselves.  *)
(***************************************************************************)
EXTENDS StageSequence

MCTaskCount == [s \in Suites |-> 1]

MCRepetitions == [s \in Suites |-> IF s = "W" THEN 2 ELSE 1]

Pass == [valid |-> TRUE, touched |-> TRUE, shape |-> TRUE, passed |-> TRUE]

\* No call at all; a call that went nowhere.
Silent == [valid |-> FALSE, touched |-> FALSE, shape |-> TRUE, passed |-> FALSE]
Astray == [Silent EXCEPT !.valid = TRUE, !.shape = FALSE]

\* Stage 0: with and without a valid call.  Suite W under the native driver: near
\* miss or pass, so that a majority, a tie with a mean of exactly 2.5 and a no all
\* occur.  Under pi every run passes.
MCOutcomes ==
    [x \in Stages \X Drivers |->
        CASE x[1] = "stage0"             -> {Pass, Silent}
          [] x = <<"stage2a", "native">> -> {Pass, Astray}
          [] OTHER                       -> {Pass}]

\* The whole sequence, the two agent stages alone, and a list out of order.
MCLists ==
    { <<"stage0", "stage1", "stage2a", "stage2b">>,
      <<"stage2a", "stage2b">>,
      <<"stage2b", "stage0">> }

\* `stage2b --context 16384 --driver pi`: Stage 3's context, suite T and driver, in a
\* file of its own.
MCStandalone ==
    { << Part("stage2b", "T", "pi", 16384) >> }
=============================================================================
