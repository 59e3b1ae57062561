---------------------------- MODULE MCLocalOverwrite ----------------------------
(* LocalPlatform with the outcome that was stored first for each run:      *)
(* executors and requests, without an import.                              *)
EXTENDS LocalPlatform

VARIABLE outcome

Unended == With("queued")

OverwriteInit == Init /\ outcome = [r \in Run |-> Unended]

OverwriteNext ==
    /\ Next /\ NoImportYet'
    /\ outcome' = [r \in Run |-> IF outcome[r] = Unended /\ Has(r, Ended)' THEN manifest'[r]
                                 ELSE outcome[r]]

OverwriteSpec == OverwriteInit /\ [][OverwriteNext]_<<vars, outcome>>

\* "Terminal manifests are immutable": what a run was stored with when it ended is what
\* the local store has of it from then on.
TerminalManifestsStay == \A r \in Run : outcome[r] # Unended => manifest[r] = outcome[r]

=============================================================================
