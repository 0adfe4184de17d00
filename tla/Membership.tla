----------------------------- MODULE Membership -----------------------------
(***************************************************************************)
(* Who is in which multicast group, as the clients, the server and its     *)
(* backup see it.  A server keeps, for each group, the list of its clients *)
(* and its capability and, for each client, a node of the red-black tree   *)
(* that lists the client's groups.  Clients join and leave by datagrams;   *)
(* every change is sent on to the backup as a checkpoint; "migrate" tells  *)
(* the listening clients to talk to the backup from then on.               *)
(*                                                                         *)
(* One action is one handler or one CLI command run to its end.  Requests, *)
(* responses and notices may be delayed, reordered and lost (they need     *)
(* never be taken out of the sets that hold them); duplicates, losses and  *)
(* overtakings of checkpoints, and restarts of clients are counted as      *)
(* faults.  What tasks do to a group is in GroupTask, but for the clients  *)
(* that are reported dead and written off.                                 *)
(***************************************************************************)
EXTENDS Integers, Sequences, SequencesExt

CONSTANTS
  Client,
  Server,
  Group,        \* the groups of ip_mappings.txt, the same at every server
  Unknown,      \* group names that no server knows
  NULL,
  Primary,      \* the server whose address clients are started with
  BackupOf,     \* the address an operator types after "server backup"
  JoinLists,    \* the lists of group names clients are started with
  Capability,   \* what generate_random_capability returns, 1 .. 3
  Word,         \* 2^32, the range of an unsigned int
  MaxRequests,  \* how many requests clients send (a bound)
  MaxFaults     \* how many faults happen (a bound)

ASSUME PrimaryAssumption == Primary \in Server
ASSUME BackupAssumption ==
  /\ BackupOf \in [Server -> Server \cup {NULL}]
  /\ NULL \notin Server
  /\ \A s \in Server : BackupOf[s] \notin {s, Primary}
ASSUME NamesAssumption ==
  /\ Group \cap Unknown = {}
  /\ NULL \notin Group
  /\ JoinLists \subseteq Seq(Group \cup Unknown)
ASSUME NumbersAssumption ==
  /\ Word \in Nat \ {0}
  /\ Capability \subseteq 1 .. Word - 1
  /\ MaxRequests \in Nat /\ MaxFaults \in Nat

Names == Group \cup Unknown

VARIABLES
  db,                \* each server's lists
  standby,           \* the servers with is_stdby_available
  link,              \* the checkpoints on their way to each server's backup
  requests,          \* join and leave requests on their way
  responses,         \* responses with cause ACCEPTED on their way
  notices,           \* the new servers each client is yet to be notified of
  process,           \* a client's process: "running" or "aborted"
  client_grp_list,   \* the group names in a client's own list
  client_capability, \* what the client's process drew when it started
  server,            \* the server a client talks to
  sent,              \* number of requests sent so far
  started,           \* value of sent when the client's process was started
  faults,            \* faults so far
  duplicated,        \* "yes" once a request or response was delivered twice
  mirrored           \* the servers whose backup has missed nothing so far

net == <<requests, responses, notices>>
client == <<process, client_grp_list, client_capability, server>>
history == <<sent, started, faults, duplicated, mirrored>>

vars == <<db, standby, link, requests, responses, notices, process,
          client_grp_list, client_capability, server, sent, started, faults,
          duplicated, mirrored>>

(* The lists of a server: client_info of each group (head first), the      *)
(* group's capability, the groups on each client's RBT node and the        *)
(* capability stored there, 0 when the client has no node.                 *)
Lists == [client_info : [Group -> Seq(Client)],
          grp_capability : [Group -> 0 .. Word - 1],
          grp_list : [Client -> Seq(Group)],
          capability : [Client -> Capability \cup {0}]]

NoClients ==
  [client_info |-> [g \in Group |-> <<>>],
   grp_capability |-> [g \in Group |-> 0],
   grp_list |-> [c \in Client |-> <<>>],
   capability |-> [c \in Client |-> 0]]

Checkpoints == [type : {"ADD_CHECKPOINT", "DEL_CHECKPOINT"}, group : Group,
                client : Client, capability : Capability \cup {0}]

Requests == [id : 1 .. MaxRequests, type : {"join", "leave"}, from : Client,
             to : Server, names : Seq(Names), capability : Capability]

Responses == [id : 1 .. MaxRequests, type : {"join", "leave"}, to : Client,
              names : Seq(Names)]

TypeOK ==
  /\ db \in [Server -> Lists]
  /\ standby \subseteq {s \in Server : BackupOf[s] # NULL}
  /\ link \in [Server -> Seq(Checkpoints)]
  /\ requests \subseteq Requests
  /\ responses \subseteq Responses
  /\ notices \in [Client -> SUBSET Server]
  /\ process \in [Client -> {"running", "aborted"}]
  /\ client_grp_list \in [Client -> Seq(Names)]
  /\ client_capability \in [Client -> Capability]
  /\ server \in [Client -> Server]
  /\ sent \in 0 .. MaxRequests
  /\ started \in [Client -> 0 .. MaxRequests]
  /\ faults \in 0 .. MaxFaults
  /\ duplicated \in {"no", "yes"}
  /\ mirrored \subseteq standby

Init ==
  /\ db = [s \in Server |-> NoClients]
  /\ standby = {}
  /\ link = [s \in Server |-> <<>>]
  /\ requests = {}
  /\ responses = {}
  /\ notices = [c \in Client |-> {}]
  /\ process = [c \in Client |-> "running"]
  /\ client_grp_list = [c \in Client |-> <<>>]
  /\ client_capability \in [Client -> Capability]
  /\ server = [c \in Client |-> Primary]
  /\ sent = 0
  /\ started = [c \in Client |-> 0]
  /\ faults = 0
  /\ duplicated = "no"
  /\ mirrored = {}

----------------------------------------------------------------------------
(* The server's lists.                                                     *)

(* insert_client_info_in_server_DS: the client is purged from the group's  *)
(* list and put at its head; its RBT node lists the group once more and    *)
(* keeps the capability it was created with.  Slips: the client is not     *)
(* purged; a client that has a node already gets no second listing.        *)
Added_NotPurged(d, g, c, k) ==
  [d EXCEPT !.grp_capability[g] = (@ + k) % Word,
            !.client_info[g] = <<c>> \o @,
            !.grp_list[c] = <<g>> \o @,
            !.capability[c] = IF @ = 0 THEN k ELSE @]

Added_OnlyNew(d, g, c, k) ==
  [d EXCEPT !.grp_capability[g] = (@ + k) % Word,
            !.client_info[g] = <<c>> \o RemoveFirst(@, c),
            !.grp_list[c] = IF @ = <<>> THEN <<g>> ELSE @,
            !.capability[c] = IF @ = 0 THEN k ELSE @]

Added(d, g, c, k) ==
  [d EXCEPT !.grp_capability[g] = (@ + k) % Word,
            !.client_info[g] = <<c>> \o RemoveFirst(@, c),
            !.grp_list[c] = <<g>> \o @,
            !.capability[c] = IF @ = 0 THEN k ELSE @]

Listed(d, g, c) == \E i \in DOMAIN d.grp_list[c] : d.grp_list[c][i] = g

(* remove_client_info_from_server_DS: the first listing of the group goes, *)
(* with it the client's place in the group and, after the last listing of  *)
(* any group, the RBT node.  Without a listing nothing happens.  A slip:   *)
(* the capability is a signed number.                                      *)
Removed_Signed(d, g, c) ==
  IF ~Listed(d, g, c) THEN d
  ELSE LET rest == RemoveFirst(d.grp_list[c], g)
       IN  [d EXCEPT !.grp_capability[g] = @ - d.capability[c],
                     !.client_info[g] = RemoveFirst(@, c),
                     !.grp_list[c] = rest,
                     !.capability[c] = IF rest = <<>> THEN 0 ELSE @]

Removed(d, g, c) ==
  IF ~Listed(d, g, c) THEN d
  ELSE LET rest == RemoveFirst(d.grp_list[c], g)
       IN  [d EXCEPT !.grp_capability[g] = (@ - d.capability[c]) % Word,
                     !.client_info[g] = RemoveFirst(@, c),
                     !.grp_list[c] = rest,
                     !.capability[c] = IF rest = <<>> THEN 0 ELSE @]

(* send_checkpoint: to the backup, if one was named.                       *)
Send(s, checkpoints) ==
  link' = [link EXCEPT ![s] = IF s \in standby THEN @ \o checkpoints ELSE @]

Checkpoint(type, g, c, k) ==
  [type |-> type, group |-> g, client |-> c, capability |-> k]

(* The group for the i-th name of a join request: get_group_node_by_name   *)
(* leaves group_node as the names before have set it when it finds nothing.*)
Resolved(names, i) ==
  LET known == {j \in 1 .. i : names[j] \in Group}
  IN  IF known = {} THEN NULL ELSE names[Max(known)]

Accepted(names) == {i \in DOMAIN names : Resolved(names, i) # NULL}

(* The places of the accepted names form a suffix of the list.             *)
AcceptedFrom(names) == IF Accepted(names) = {} THEN Len(names) + 1
                       ELSE Min(Accepted(names))

Accepts(names) == SubSeq(names, AcceptedFrom(names), Len(names))

Groups(names) ==
  [i \in 1 .. Len(Accepts(names)) |->
     Resolved(names, AcceptedFrom(names) + i - 1)]

----------------------------------------------------------------------------
(* Clients.                                                                *)

Post(request) == requests' = requests \cup {request}

(* "join group": not for a group in the client's own list.                 *)
SendJoin(c, n) ==
  /\ process[c] = "running"
  /\ sent < MaxRequests
  /\ ~ \E i \in DOMAIN client_grp_list[c] : client_grp_list[c][i] = n
  /\ sent' = sent + 1
  /\ Post([id |-> sent + 1, type |-> "join", from |-> c, to |-> server[c],
           names |-> <<n>>, capability |-> client_capability[c]])
  /\ UNCHANGED <<db, standby, link, responses, notices, client, started,
                 faults, duplicated, mirrored>>

(* "leave group": only for a group in the list.  (The command is refused,  *)
(* too, while the client works on a task of the group.)                    *)
SendLeave(c, n) ==
  /\ process[c] = "running"
  /\ sent < MaxRequests
  /\ \E i \in DOMAIN client_grp_list[c] : client_grp_list[c][i] = n
  /\ sent' = sent + 1
  /\ Post([id |-> sent + 1, type |-> "leave", from |-> c, to |-> server[c],
           names |-> <<n>>, capability |-> client_capability[c]])
  /\ UNCHANGED <<db, standby, link, responses, notices, client, started,
                 faults, duplicated, mirrored>>

(* The client is started again: an empty list, a capability of its own and *)
(* one join request for all the groups of its command line, sent once.     *)
(* It has a new port: what was sent to the old one is lost.                *)
Start(c, names, k) ==
  /\ sent < MaxRequests
  /\ faults < MaxFaults
  /\ faults' = faults + 1
  /\ process' = [process EXCEPT ![c] = "running"]
  /\ client_grp_list' = [client_grp_list EXCEPT ![c] = <<>>]
  /\ client_capability' = [client_capability EXCEPT ![c] = k]
  /\ server' = [server EXCEPT ![c] = Primary]
  /\ notices' = [notices EXCEPT ![c] = {}]
  /\ started' = [started EXCEPT ![c] = sent]
  /\ sent' = sent + 1
  /\ Post([id |-> sent + 1, type |-> "join", from |-> c, to |-> Primary,
           names |-> names, capability |-> k])
  /\ UNCHANGED <<db, standby, link, responses, duplicated, mirrored>>

(* A datagram is taken off the network, or a copy of it stays there.       *)
Taken(m, set, set_) ==
  \/ /\ set_ = set \ {m}
     /\ UNCHANGED <<faults, duplicated>>
  \/ /\ faults < MaxFaults
     /\ faults' = faults + 1
     /\ duplicated' = "yes"
     /\ set_ = set

Reaches(r, c) == r.to = c /\ r.id > started[c] /\ process[c] = "running"

(* handle_join_response: one more node at the head of the client's list    *)
(* for every accepted name.                                                *)
RcvJoinRsp(c, r) ==
  /\ r.type = "join" /\ Reaches(r, c)
  /\ Taken(r, responses, responses')
  /\ client_grp_list' = [client_grp_list EXCEPT ![c] = Reverse(r.names) \o @]
  /\ UNCHANGED <<db, standby, link, requests, notices, process,
                 client_capability, server, sent, started, mirrored>>

(* handle_leave_response: the node goes; assert without one.               *)
RcvLeaveRsp(c, r) ==
  /\ r.type = "leave" /\ Reaches(r, c)
  /\ Taken(r, responses, responses')
  /\ client_grp_list' = [client_grp_list EXCEPT ![c] =
                           RemoveFirst(@, r.names[1])]
  /\ process' = IF \E i \in DOMAIN client_grp_list[c] :
                     client_grp_list[c][i] = r.names[1]
                THEN process ELSE [process EXCEPT ![c] = "aborted"]
  /\ UNCHANGED <<db, standby, link, requests, notices, client_capability,
                 server, sent, started, mirrored>>

(* handle_new_server_notification.                                         *)
RcvNewServer(c, s) ==
  /\ process[c] = "running"
  /\ s \in notices[c]
  /\ notices' = [notices EXCEPT ![c] = @ \ {s}]
  /\ server' = [server EXCEPT ![c] = s]
  /\ UNCHANGED <<db, standby, link, requests, responses, process,
                 client_grp_list, client_capability, history>>

----------------------------------------------------------------------------
(* Servers.                                                                *)

(* The servers whose backup s is: s goes its own way when somebody else    *)
(* changes its lists.                                                      *)
Straying(s) == {t \in mirrored : BackupOf[t] = s}

(* The client joins one group after the other.                             *)
Joined(d, groups, c, k) == FoldLeft(LAMBDA e, g : Added(e, g, c, k), d, groups)

(* handle_join_req.  A name no server knows is refused only in front of    *)
(* the first one that is known.                                            *)
RcvJoin(r) ==
  LET s == r.to
      c == r.from
      groups == Groups(r.names)
  IN  /\ r.type = "join"
      /\ Taken(r, requests, requests')
      /\ db' = [db EXCEPT ![s] = Joined(@, groups, c, r.capability)]
      /\ Send(s, [i \in DOMAIN groups |->
                    Checkpoint("ADD_CHECKPOINT", groups[i], c, r.capability)])
      /\ responses' = IF groups = <<>> THEN responses
                      ELSE responses \cup {[id |-> r.id, type |-> "join",
                                            to |-> c,
                                            names |-> Accepts(r.names)]}
      /\ mirrored' = mirrored \ Straying(s)
      /\ UNCHANGED <<standby, notices, client, sent, started>>

(* handle_leave_req.  The cause is ACCEPTED when there was a listing.      *)
RcvLeave(r) ==
  LET s == r.to
      c == r.from
      n == r.names[1]
  IN  /\ r.type = "leave"
      /\ Taken(r, requests, requests')
      /\ \/ /\ Listed(db[s], n, c)
            /\ db' = [db EXCEPT ![s] = Removed(@, n, c)]
            /\ Send(s, <<Checkpoint("DEL_CHECKPOINT", n, c,
                                    db[s].capability[c])>>)
            /\ responses' = responses \cup {[id |-> r.id, type |-> "leave",
                                             to |-> c, names |-> r.names]}
            /\ mirrored' = mirrored \ Straying(s)
         \/ /\ ~Listed(db[s], n, c)
            /\ UNCHANGED <<db, link, responses, mirrored>>
      /\ UNCHANGED <<standby, notices, client, sent, started>>

(* What a checkpoint does to the lists of the server that receives it.     *)
(* Slips: a client that is registered already is not added again; only     *)
(* additions count.                                                        *)
Replayed_Once(d, m) ==
  IF m.type = "DEL_CHECKPOINT" THEN Removed(d, m.group, m.client)
  ELSE IF Listed(d, m.group, m.client) THEN d
  ELSE Added(d, m.group, m.client, m.capability)

Replayed_AddsOnly(d, m) ==
  IF m.type = "ADD_CHECKPOINT" THEN Added(d, m.group, m.client, m.capability)
  ELSE d

Replayed(d, m) ==
  IF m.type = "ADD_CHECKPOINT" THEN Added(d, m.group, m.client, m.capability)
  ELSE Removed(d, m.group, m.client)

(* handle_checkpoint_req at the backup of s.  The lists' own operations    *)
(* send a checkpoint on to a backup of the backup, and so does the handler *)
(* again.                                                                  *)
RcvCheckpoint(s) ==
  LET t == BackupOf[s]
      m == Head(link[s])
      own == IF m.type = "ADD_CHECKPOINT" \/ Listed(db[t], m.group, m.client)
             THEN <<m>> ELSE <<>>
  IN  /\ link[s] # <<>>
      /\ db' = [db EXCEPT ![t] = Replayed(@, m)]
      /\ link' = [link EXCEPT ![s] = Tail(@),
                              ![t] = IF t \in standby THEN @ \o own \o <<m>>
                                     ELSE @]
      /\ mirrored' = mirrored \ (Straying(t) \ {s})
      /\ UNCHANGED <<standby, net, client, sent, started, faults, duplicated>>

(* A checkpoint is lost, or overtaken by the next one.                     *)
CheckpointLost(s) ==
  /\ link[s] # <<>>
  /\ faults < MaxFaults
  /\ faults' = faults + 1
  /\ link' = [link EXCEPT ![s] = Tail(@)]
  /\ mirrored' = mirrored \ {s}
  /\ UNCHANGED <<db, standby, net, client, sent, started, duplicated>>

CheckpointOvertaken(s) ==
  /\ Len(link[s]) > 1
  /\ faults < MaxFaults
  /\ faults' = faults + 1
  /\ link' = [link EXCEPT ![s] = <<@[2], @[1]>> \o SubSeq(@, 3, Len(@))]
  /\ mirrored' = mirrored \ {s}
  /\ UNCHANGED <<db, standby, net, client, sent, started, duplicated>>

(* "server backup": checkpoints are sent from now on, and the clients that *)
(* are registered already are never sent.                                  *)
NameBackup(s) ==
  /\ BackupOf[s] # NULL
  /\ s \notin standby
  /\ standby' = standby \cup {s}
  /\ mirrored' = IF db[s].client_info = db[BackupOf[s]].client_info
                 THEN mirrored \cup {s} ELSE mirrored
  /\ UNCHANGED <<db, link, net, client, sent, started, faults, duplicated>>

(* "migrate": every client that listens on a group is notified.            *)
Migrate(s) ==
  /\ s \in standby
  /\ notices' = [c \in Client |->
                   IF client_grp_list[c] # <<>> /\ process[c] = "running"
                   THEN notices[c] \cup {BackupOf[s]} ELSE notices[c]]
  /\ UNCHANGED <<db, standby, link, requests, responses, client, history>>

(* A client is reported dead while the group works on a task: the group    *)
(* loses its capability, and the client stays in every list.               *)
WriteOff(s, g, c) ==
  /\ db[s].capability[c] # 0
  /\ faults < MaxFaults
  /\ faults' = faults + 1
  /\ db' = [db EXCEPT ![s].grp_capability[g] =
              (@ - db[s].capability[c]) % Word]
  /\ UNCHANGED <<standby, link, net, client, sent, started, duplicated,
                 mirrored>>

----------------------------------------------------------------------------
Next ==
  \/ \E c \in Client, n \in Names : SendJoin(c, n)
  \/ \E c \in Client, n \in Names : SendLeave(c, n)
  \/ \E c \in Client, l \in JoinLists, k \in Capability : Start(c, l, k)
  \/ \E c \in Client : \E r \in responses : RcvJoinRsp(c, r)
  \/ \E c \in Client : \E r \in responses : RcvLeaveRsp(c, r)
  \/ \E c \in Client, s \in Server : RcvNewServer(c, s)
  \/ \E r \in requests : RcvJoin(r)
  \/ \E r \in requests : RcvLeave(r)
  \/ \E s \in Server : RcvCheckpoint(s)
  \/ \E s \in Server : CheckpointLost(s)
  \/ \E s \in Server : CheckpointOvertaken(s)
  \/ \E s \in Server : NameBackup(s)
  \/ \E s \in Server : Migrate(s)
  \/ \E s \in Server, g \in Group, c \in Client : WriteOff(s, g, c)

Spec == Init /\ [][Next]_vars

----------------------------------------------------------------------------
(* Properties.                                                             *)

Members(d, g) == {d.client_info[g][i] : i \in DOMAIN d.client_info[g]}

Occurrences(seq, x) == Cardinality({i \in DOMAIN seq : seq[i] = x})

(* At every server, whatever requests and checkpoints it has got in        *)
(* whatever order, a client is at most once in the list of a group, and    *)
(* the groups it is in are listed on its RBT node, which exists while it   *)
(* lists any (the handlers follow rbNode without a test).                  *)
RegistryAgrees ==
  \A s \in Server : \A c \in Client :
    /\ db[s].capability[c] = 0 <=> db[s].grp_list[c] = <<>>
    /\ \A g \in Group :
         /\ Occurrences(db[s].client_info[g], c) <= 1
         /\ c \in Members(db[s], g) => Listed(db[s], g, c)

(* The backup lags behind and never goes astray: the checkpoints that are  *)
(* still on their way would make its groups those of the server, member by *)
(* member and in the same order, so that a moderator search after          *)
(* "migrate" takes the same course.  It holds as long as the backup was    *)
(* named before it had missed anybody, nobody asks it directly and no      *)
(* checkpoint is lost or overtaken - and for the backup of a backup, which *)
(* gets every checkpoint twice.                                            *)
BackupMirrors ==
  \A s \in mirrored :
    FoldLeft(Replayed, db[BackupOf[s]], link[s]).client_info
      = db[s].client_info

(* The nodes for a group that join responses can still give the client:    *)
(* one for each time an accepted join names the group.                     *)
Coming(c, g) ==
  Cardinality(UNION {{r} \X {i \in DOMAIN r.names : r.names[i] = g} :
                       r \in {q \in responses : q.type = "join" /\ q.to = c
                                                /\ q.id > started[c]}})

(* The leaves it was granted and has not heard of; what an earlier process *)
(* asked for may be granted late, and its successor never hears of it.     *)
Granted(c, g) ==
  Cardinality({r \in responses :
                 r.type = "leave" /\ r.to = c /\ r.names = <<g>>})

(* A client is in no group behind the server's back: until clients are     *)
(* moved to another server, and unless datagrams are duplicated, it has no *)
(* more nodes for a group than its RBT node has listings, counting the     *)
(* responses on their way - whatever requests and responses are lost or    *)
(* reordered, and however often it is started again.                       *)
ListenersAreRegistered ==
  duplicated = "no" /\ (\A c \in Client : server[c] = Primary) =>
    \A c \in Client, g \in Group : process[c] = "running" =>
      Occurrences(client_grp_list[c], g) + Coming(c, g)
        <= Occurrences(db[Primary].grp_list[c], g) + Granted(c, g)
=============================================================================
