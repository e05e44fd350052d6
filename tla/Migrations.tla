----------------------------- MODULE Migrations -----------------------------
(***************************************************************************)
(* The migration runner: a server that starts applies, in the order of     *)
(* their names, the migrations of its release that schema_migrations does  *)
(* not list, and serves when all are listed.  database/migrations.go and  *)
(* its caller main.go.  Servers of two releases may start at a time, stop  *)
(* anywhere and start again.  A migration and its row are one transaction; *)
(* whether it was listed is looked up before.                             *)
(***************************************************************************)
EXTENDS Integers, FiniteSets

CONSTANTS
    Servers,
    Shipped         \* per server: the numbers of its migrations

VARIABLES
    listed,        \* schema_migrations
    ran,            \* how often each migration's statements were committed
    server          \* what it does, and the migrations it has passed

migrationVars == <<listed, ran, server>>

Versions == UNION {Shipped[s] : s \in Servers}
Down == [at |-> "down", past |-> {}]

MigrationsInit ==
    /\ listed = {}
    /\ ran = [v \in Versions |-> 0]
    /\ server = [s \in Servers |-> Down]

-----------------------------------------------------------------------------
Ahead(s) == Shipped[s] \ server[s].past
NextVersion(s) == CHOOSE v \in Ahead(s) : \A w \in Ahead(s) : v <= w

Start(s) ==
    /\ server[s] = Down
    /\ server' = [server EXCEPT ![s].at = "looks"]
    /\ UNCHANGED <<listed, ran>>

(* migrationApplied                                                        *)
LookUp(s) ==
    /\ server[s].at = "looks" /\ Ahead(s) # {}
    /\ \/ /\ NextVersion(s) \in listed
          /\ server' = [server EXCEPT ![s].past = @ \cup {NextVersion(s)}]
       \/ /\ NextVersion(s) \notin listed
          /\ server' = [server EXCEPT ![s].at = "applies"]
    /\ UNCHANGED <<listed, ran>>

FaultyFreeVersion(v) == TRUE
FreeVersion(v) == v \notin listed

(* The migration's statements, its row (whose key is unique), the commit.  *)
ApplyMigration(s) ==
    /\ server[s].at = "applies"
    /\ LET v == NextVersion(s)
       IN  /\ FreeVersion(v)
           /\ listed' = listed \cup {v}
           /\ ran' = [ran EXCEPT ![v] = @ + 1]
           /\ server' = [server EXCEPT ![s] =
                [at |-> "looks", past |-> server[s].past \cup {v}]]

Serve(s) ==
    /\ server[s].at = "looks" /\ Ahead(s) = {}
    /\ server' = [server EXCEPT ![s].at = "serves"]
    /\ UNCHANGED <<listed, ran>>

(* An error (the row is there already, a statement fails), or a stop.      *)
Stop(s) ==
    /\ server[s] # Down
    /\ server' = [server EXCEPT ![s] = Down]
    /\ UNCHANGED <<listed, ran>>

MigrationsNext ==
    \E s \in Servers : Start(s) \/ LookUp(s) \/ ApplyMigration(s) \/ Serve(s) \/ Stop(s)

MigrationsSpec == MigrationsInit /\ [][MigrationsNext]_migrationVars

-----------------------------------------------------------------------------
(* No migration is ever committed twice, however servers start beside each *)
(* other and stop, and a server that serves has all of its own.            *)
MigratedOnce ==
    /\ \A v \in Versions : ran[v] = IF v \in listed THEN 1 ELSE 0
    /\ \A s \in Servers : server[s].at = "serves" => Shipped[s] \subseteq listed
=============================================================================
