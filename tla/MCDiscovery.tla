----------------------------- MODULE MCDiscovery -----------------------------
(***************************************************************************)
(* Small instances of Discovery for TLC.                                   *)
(***************************************************************************)
EXTENDS Discovery

Entry(kind, sub, of) == [kind |-> kind, sub |-> sub, of |-> of]

\* one subsystem with two listeners, open to all hosts or to one of them
SomeEntries ==
    {Entry("subsystem", 1, None), Entry("listener", 1, 1), Entry("listener", 1, 2),
     Entry("host", 1, Star)}

AllOpen == {SomeEntries}

\* no listener yet
OnlyOpen == {{Entry("host", 1, Star)}}
=============================================================================
