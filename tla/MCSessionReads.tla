---------------------------- MODULE MCSessionReads ----------------------------
(* TLC instance of SessionReads.                                            *)
EXTENDS SessionReads

MCList(of, dir) == [kind |-> "list", of |-> of, dir |-> dir]
MCExport == [kind |-> "export"]
MCJobs == {MCList("messages", "any"), MCList("messages", "c2s"), MCList("security", "any"),
           MCList("inject", "any"), MCExport}

\* Bound: what is read or deleted while frames are recorded is of the first three;
\* and events are read of a session without frames.
MCReading ==
  /\ reader # Idle \/ ~exists => clock <= 3
  /\ events.security # <<>> \/ events.inject # <<>> => clock = 1

\* Ids are only ever compared.
MCIds == Permutations(Ids)
=============================================================================
