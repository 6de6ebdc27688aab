\* Two hosts, two slots that the running configuration uses too, two variables in
\* a response, so that tables end inside, after and exactly at a response.
SPECIFICATION FairSpec
CONSTANTS
    ifDescr = ifDescr  atIndex = atIndex
    NumHosts = 2
    Oid = {ifDescr, atIndex}
    TablesOf <- MCTablesOf
    Agent <- MCAgent
    Found = {atIndex}
    Collection <- MCCollection
    Reps = 2
    Slots = 2
INVARIANTS TypeOK SlotsConserved MappingAfterWalks SuffixesRight
PROPERTIES LoadTablesEnd
