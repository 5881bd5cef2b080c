----------------------------- MODULE MapMplsLsp -----------------------------
(***************************************************************************)
(* The app that shows label switched paths on a map (web/apps/             *)
(* map-mpls-lsp).  A run of its command goes through stages: the LSPs of   *)
(* the device, the locations of the hosts of each LSP in turn, the host    *)
(* names and then the interfaces of every address, all at once.  The names *)
(* are in one map for the page, which grows with every run.                *)
(***************************************************************************)
EXTENDS Naturals, FiniteSets

CONSTANTS
    Address,  \* of hosts on LSPs
    MaxRun,   \* bound: runs of the command
    MaxLsp    \* bound: LSPs of a device

ASSUME MapAssumption == {MaxRun, MaxLsp} \subseteq Nat /\ IsFiniteSet(Address)

Run == 1..MaxRun

VARIABLES
    stage,       \* of each run: "none", "lsp", "location", "hostnames", "interfaces", "shown",
                 \* "error", "alert"
    lookUpMap,   \* the addresses in the map, each with what is known of it
    lspLeft,     \* LSPs whose locations are not known yet
    hosting,     \* addresses whose host name a run has asked for
    naming,      \* addresses whose interface it has asked for
    counted      \* the length of the count array of the stage

mapVars == <<stage, lookUpMap, lspLeft, hosting, naming, counted>>

Unnamed == [hostname |-> FALSE, interface |-> FALSE]
Key     == DOMAIN lookUpMap

\* The map with more addresses in it
With(S) == [a \in Key \cup S |-> IF a \in Key THEN lookUpMap[a] ELSE Unnamed]

Goes(r, to) == stage' = [stage EXCEPT ![r] = to]

-----------------------------------------------------------------------------
(* The stages *)

\* The command's execute function
MapLsp(r) ==
    /\ stage[r] = "none" /\ Goes(r, "lsp")
    /\ UNCHANGED <<lookUpMap, lspLeft, hosting, naming, counted>>

\* fetchLSPInfo: the reply has n LSPs with these addresses.  Without any session data the
\* command is run again, as often as it takes.
LspReplied(r, n, S) ==
    /\ stage[r] = "lsp"
    /\ Goes(r, IF n = 0 THEN "error" ELSE "location")
    /\ lookUpMap' = With(S) /\ lspLeft' = [lspLeft EXCEPT ![r] = n]
    /\ UNCHANGED <<hosting, naming, counted>>

LspFailed(r) ==
    /\ stage[r] = "lsp" /\ Goes(r, "error")
    /\ UNCHANGED <<lookUpMap, lspLeft, hosting, naming, counted>>

\* populateLSPJsonWithLocation: of a transit LSP the device's own address is put into the
\* map anew.  After the last LSP getHostnames asks every address in the map.
Located(r, own) ==
    /\ stage[r] = "location"
    /\ lookUpMap' = [a \in Key \cup own |-> IF a \in own THEN Unnamed ELSE lookUpMap[a]]
    /\ lspLeft' = [lspLeft EXCEPT ![r] = @ - 1]
    /\ IF lspLeft'[r] > 0 THEN UNCHANGED <<stage, hosting, counted>>
       ELSE /\ Goes(r, "hostnames")
            /\ hosting' = [hosting EXCEPT ![r] = DOMAIN lookUpMap']
            /\ counted' = [counted EXCEPT ![r] = 0]
    /\ UNCHANGED <<naming>>

LocationFails(r) ==
    /\ stage[r] = "location" /\ Goes(r, "alert")
    /\ UNCHANGED <<lookUpMap, lspLeft, hosting, naming, counted>>

\* A mutant of Everyone: the first to answer is enough
EveryoneAny(n) == n > 0

\* count.length == Object.keys(lookUpMap).length
Everyone(n) == n = Cardinality(Key)

\* The callback of getHostnames, and getInterfaceNames when everyone has answered
HostReplied(r, a) ==
    /\ a \in hosting[r] /\ hosting' = [hosting EXCEPT ![r] = @ \ {a}]
    /\ lookUpMap' = [lookUpMap EXCEPT ![a].hostname = TRUE]
    /\ IF Everyone(counted[r] + 1)
       THEN /\ Goes(r, "interfaces")
            /\ naming'  = [naming EXCEPT ![r] = Key]
            /\ counted' = [counted EXCEPT ![r] = 0]
       ELSE /\ counted' = [counted EXCEPT ![r] = @ + 1]
            /\ UNCHANGED <<stage, naming>>
    /\ UNCHANGED <<lspLeft>>

\* What the callback of getInterfaceNames makes of a reply: whether it notes an interface,
\* and how often it counts.  JSON of another form is counted before and after it throws, and
\* an empty reply is not.
Outcomes == {[notes |-> TRUE,  pushes |-> 1], [notes |-> FALSE, pushes |-> 1],
             [notes |-> TRUE,  pushes |-> 2], [notes |-> FALSE, pushes |-> 0]}

\* When everyone is counted the LSPs are shown, even if they are shown already
\* (fetchAddressFromCoordinates calls back at once; what follows is in LspView)
InterfaceReplied(r, a, outcome) ==
    /\ a \in naming[r] /\ naming' = [naming EXCEPT ![r] = @ \ {a}]
    /\ lookUpMap' = [lookUpMap EXCEPT ![a].interface = @ \/ outcome.notes]
    /\ counted' = [counted EXCEPT ![r] = @ + outcome.pushes]
    /\ IF Everyone(counted'[r]) THEN Goes(r, "shown") ELSE UNCHANGED stage
    /\ UNCHANGED <<lspLeft, hosting>>

\* A command fails: nobody is counted, and the run waits for ever
NameFails(r, a) ==
    /\ a \in hosting[r] \cup naming[r]
    /\ hosting' = [hosting EXCEPT ![r] = @ \ {a}] /\ naming' = [naming EXCEPT ![r] = @ \ {a}]
    /\ UNCHANGED <<stage, lookUpMap, lspLeft, counted>>

-----------------------------------------------------------------------------
MapInit ==
    /\ stage = [r \in Run |-> "none"] /\ lookUpMap = << >>
    /\ lspLeft = [r \in Run |-> 0] /\ counted = [r \in Run |-> 0]
    /\ hosting = [r \in Run |-> {}] /\ naming = [r \in Run |-> {}]

MapNext ==
    \/ \E r \in Run :
          \/ MapLsp(r) \/ LspFailed(r) \/ LocationFails(r)
          \/ LspReplied(r, 0, {})
          \/ \E n \in 1..MaxLsp, S \in SUBSET Address \ {{}} : LspReplied(r, n, S)
          \/ \E own \in {{}} \cup {{a} : a \in Address} : Located(r, own)
          \/ \E a \in Address :
                \/ HostReplied(r, a) \/ NameFails(r, a)
                \/ \E outcome \in Outcomes : InterfaceReplied(r, a, outcome)

-----------------------------------------------------------------------------
(* What the app promises *)

MapTypeOK ==
    /\ stage \in [Run -> {"none", "lsp", "location", "hostnames", "interfaces", "shown",
                          "error", "alert"}]
    /\ Key \subseteq Address
    /\ \A a \in Key : lookUpMap[a] \in [{"hostname", "interface"} -> BOOLEAN]
    /\ lspLeft \in [Run -> 0..MaxLsp] /\ counted \in [Run -> 0..2 * Cardinality(Address)]
    /\ hosting \in [Run -> SUBSET Key] /\ naming \in [Run -> SUBSET Key]

\* getInterfaceNames is called when every host has answered, however the map has grown by
\* other runs in the meantime: a run that has gone on waits for no host name.
NamesBeforeInterfaces ==
    \A r \in Run : stage[r] \in {"interfaces", "shown"} => hosting[r] = {}

=============================================================================
