---------------------------- MODULE MCStageRunner ----------------------------
(***************************************************************************)
(* StageRunner for TLC: commands that share session directories, files and *)
(* transcript paths in every way the CLI allows.                           *)
(***************************************************************************)
EXTENDS StageRunner

Cmd(name, driver, ctx) == [cmd |-> name, driver |-> driver, ctx |-> ctx]

\* The 8192 session: two arms of one stage and the compaction experiment over the
\* same suites.  And the 16384 session, where stage3 repeats a stage.
MCCommands == { Cmd("stage2a", "native", 8192),
                Cmd("stage2a", "pi", 8192),
                Cmd("stage5b-compact", "native", 8192),
                Cmd("stage3", "pi", 16384),
                Cmd("stage2a", "pi", 16384) }

\* Larger and smaller contexts: stage3's two suites in one file, the other way into
\* the 16384 session, a context below every task's min_context and one above what
\* the model advertises.
MCCommands16K == { Cmd("stage3", "pi", 16384),
                   Cmd("stage1", "native", 16384),
                   Cmd("stage2a", "pi", 16384),
                   Cmd("stage2a", "pi", 4096),
                   Cmd("stage2a", "pi", 32768) }

\* The sampling pass under each driver.
MCSamplingCommands == { Cmd("stage5b-sampling", "native", 8192),
                        Cmd("stage5b-sampling", "pi", 8192) }

MCMinContext == <<8192, 8192>>
=============================================================================
