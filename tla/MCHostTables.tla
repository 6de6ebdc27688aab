---------------------------- MODULE MCHostTables ----------------------------
(* Two hosts: one with a table of three rows and a second one, of longer    *)
(* suffixes, that maps its suffixes further; one with a value in two rows.  *)
EXTENDS HostTables

CONSTANTS ifDescr, atIndex

ARow(inst, text) == [inst |-> inst, raw |-> [typed |-> TRUE, text |-> text]]
\* An empty string is printed without its type.
EmptyRow(inst) == [inst |-> inst, raw |-> [typed |-> FALSE, text |-> <<"-">>]]

MCTablesOf == << <<ifDescr, atIndex>>, <<ifDescr>> >>

MCAgent ==
    << (ifDescr :> <<ARow(<<"1">>, <<"lo">>), ARow(<<"2">>, <<"eth0">>), EmptyRow(<<"3">>)>>)
         @@ (atIndex :> <<ARow(<<"2", "9">>, <<"2">>)>>),
       (ifDescr :> <<ARow(<<"1">>, <<"lo">>), ARow(<<"4">>, <<"lo">>)>>)
         @@ (atIndex :> <<>>) >>

MCCollection ==
    {[host |-> 1, seq |-> <<>>, premap |-> <<"5">>],
     [host |-> 1, seq |-> <<ifDescr>>, premap |-> <<"lo">>],
     [host |-> 1, seq |-> <<ifDescr>>, premap |-> <<>>],
     [host |-> 1, seq |-> <<ifDescr, atIndex>>, premap |-> <<"eth0">>],
     [host |-> 1, seq |-> <<ifDescr, atIndex>>, premap |-> <<"lo">>],
     [host |-> 1, seq |-> <<ifDescr>>, premap |-> <<"eth7">>],
     [host |-> 2, seq |-> <<ifDescr>>, premap |-> <<"lo">>]}
=============================================================================
