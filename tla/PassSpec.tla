------------------------------ MODULE PassSpec ------------------------------
(***************************************************************************)
(* Abstract specification of one generation pass (spec 4.4): prost-build  *)
(* visits the files in order, and each file, as one step, appends its      *)
(* client stubs and then its server stubs to its package's buffer, or the  *)
(* pass aborts on a type that does not resolve.  The pass is driven to its *)
(* end: it does not stop while a file is left and nothing has panicked.    *)
(***************************************************************************)
EXTENDS Generation

CONSTANTS Files, Packages

VARIABLES settings,  \* the generator's settings, fixed for the pass
          prostWkt,  \* the Config's compile_well_known_types, fixed
          emitted,   \* number of files whose output is in the buffers
          out,       \* package -> the stubs emitted for it so far
          aborted    \* the pass ended in a panic

absVars == <<settings, prostWkt, emitted, out, aborted>>

Init ==
  /\ emitted = 0
  /\ out = [p \in Packages |-> <<>>]
  /\ aborted = FALSE

\* The next file of the pass, while one is left and nothing panicked.
Pending == ~aborted /\ emitted < Len(Files)
NextFile == Files[emitted + 1]

EmitFile ==
  /\ Pending
  /\ FileResolves(NextFile, settings, prostWkt)
  /\ out' = [out EXCEPT ![NextFile.package] =
                 @ \o FileOutput(NextFile, settings, prostWkt)]
  /\ emitted' = emitted + 1
  /\ UNCHANGED <<settings, prostWkt, aborted>>

Panic ==
  /\ Pending
  /\ ~FileResolves(NextFile, settings, prostWkt)
  /\ aborted' = TRUE
  /\ UNCHANGED <<settings, prostWkt, emitted, out>>

Next == EmitFile \/ Panic

Spec == Init /\ [][Next]_absVars /\ WF_absVars(Next)

=============================================================================
