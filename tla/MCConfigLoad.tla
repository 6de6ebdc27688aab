---------------------------- MODULE MCConfigLoad ----------------------------
(* Databases of up to three collections in two classes on two hosts, with    *)
(* and without a mapping, and some that are larger or not in order.          *)
EXTENDS ConfigLoad

Entry(class, host, mapping) ==
    [class |-> class, host |-> host, mapping |-> mapping, active |-> TRUE]

\* Two mappings, the second one with a cycle of values.
MCFirst == <<1, 2>>
MCNextOf == <<0, 3, 2>>

\* Collections 1, 3 and 4 are in a directory of two missing levels.
MCParent == <<0, 1>>
MCDirOf == <<2, 1, 2, 2>>

Db(coll) == [coll |-> coll, hosts |-> 1 .. 2, oids |-> <<1, 1>>, rras |-> <<1, 1>>]

\* Which rows share a class and a host decides how they fall into pages.
Entries == <<Entry(1, 1, 2), Entry(1, 2, 0), Entry(2, 1, 1)>>

MCDatabases ==
    {Db([i \in 1 .. 3 |-> Entries[f[i]]]) :
        f \in {g \in [1 .. 3 -> DOMAIN Entries] : g[1] <= g[2] /\ g[2] <= g[3]}}
    \cup {Db(<<Entry(2, 2, 1), Entry(1, 2, 2), Entry(1, 2, 1), Entry(1, 2, 0)>>),
          Db(<<Entry(1, 1, 1), [Entry(1, 2, 2) EXCEPT !.active = FALSE]>>),
          Db(<<>>),
          Db(<<Entry(1, 1, 3)>>),
          [Db(<<Entry(1, 1, 0), Entry(2, 2, 0)>>) EXCEPT !.hosts = {1}],
          [Db(<<Entry(1, 1, 0), Entry(2, 2, 0)>>) EXCEPT !.rras = <<1, 0>>]}
=============================================================================
