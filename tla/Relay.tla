-------------------------------- MODULE Relay --------------------------------
(***************************************************************************)
(* The local Nostr relay (components/wisp_relay, local_relay.c): the       *)
(* WebSocket server with its connection table, the subscriptions, the rate *)
(* limiter, the EVENT, REQ and CLOSE handlers and the fan-out.             *)
(*                                                                         *)
(* The HTTP server's task runs every handler, the open and close callbacks *)
(* and the queued sends, one at a time; the sync task stores through       *)
(* local_relay_publish what it takes for an event.  The event store is the *)
(* set of what it holds (RelayStore has its detail).                       *)
(***************************************************************************)
EXTENDS Integers, Sequences, FiniteSets

CONSTANTS
    Fds,          \* sockets
    SubIds,
    Cut,          \* the first SUB_MAX_ID_LEN characters of each of them
    Events,       \* [name, kind, author, date, etags, ktags]: e tags name
                  \* events, k tags kinds
    Blank,        \* what is stored of a text that is no event: an id of zeros
    Authors,      \* public keys, and Short
    Short,        \* what is too short for one
    Filters,      \* [kinds, authors, since, until]: the public keys that begin
                  \* with an author of the filter; {} and 0 where it has none
    MaxConns,     \* WS_MAX_CONNECTIONS
    MaxPerConn,   \* SUB_MAX_PER_CONN
    MaxSubs,      \* SUB_MAX_TOTAL
    MaxBuckets,   \* RATE_LIMITER_MAX_BUCKETS
    EventLimit,   \* events_per_minute
    ReqLimit,     \* reqs_per_minute
    MaxStore,     \* max_index_entries
    MaxWork       \* what httpd_queue_work takes

ASSUME RelayAssumption ==
    /\ MaxConns \in Nat /\ MaxPerConn \in Nat /\ MaxSubs \in Nat /\ MaxBuckets \in Nat
    /\ EventLimit \in Nat /\ ReqLimit \in Nat /\ MaxStore \in Nat /\ MaxWork \in Nat
    /\ Blank \notin Events
    /\ Cut \in [SubIds -> SubIds] /\ \A id \in SubIds : Cut[Cut[id]] = Cut[id]

VARIABLES
    server,    \* "off", "on", "stopping" (its callbacks are NULL), "stopped"
    conns,     \* connections[]: sockets of active ones
    leaked,    \* sockets of closed ones
    subs,      \* sub_manager: [fd, id, filters] of the slots in use
    buckets,   \* rate_limiter: sockets with a bucket, and its counts
    store,     \* the events of the storage engine
    work,      \* sends queued for the HTTP server's task
    http,      \* what the HTTP server's task is about to do
    asked,     \* history: subscription ids each connection has asked for
    stray,     \* history: an event went to a connection that had not asked
    due        \* history: [fd, id, ev] of subscriptions that were there when
               \* the event was stored, until delivered

tables  == <<conns, leaked, subs, buckets>>
history == <<asked, stray, due>>
vars    == <<server, conns, leaked, subs, buckets, store, work, http, asked, stray, due>>

Idle == [at |-> "idle"]

(***************************************************************************)
(* rate_limiter_check.  A bucket is taken by the first message on a socket *)
(* and never given back (rate_limiter_reset has no caller).                *)
(***************************************************************************)
HasBucket(fd) == fd \in DOMAIN buckets \/ Cardinality(DOMAIN buckets) < MaxBuckets

Bucket(fd) == IF fd \in DOMAIN buckets THEN buckets[fd] ELSE [events |-> 0, reqs |-> 0]

Counted(fd, b) == [f \in DOMAIN buckets \cup {fd} |-> IF f = fd THEN b ELSE buckets[f]]

(* A check of the given kind of message: allowed, and the buckets after.   *)
CheckEvent(fd, allowed) ==
    /\ allowed <=> HasBucket(fd) /\ Bucket(fd).events < EventLimit
    /\ buckets' = IF ~HasBucket(fd) THEN buckets
                  ELSE Counted(fd, [Bucket(fd) EXCEPT !.events = IF allowed THEN @ + 1 ELSE @])

CheckReq(fd, allowed) ==
    /\ allowed <=> HasBucket(fd) /\ Bucket(fd).reqs < ReqLimit
    /\ buckets' = IF ~HasBucket(fd) THEN buckets
                  ELSE Counted(fd, [Bucket(fd) EXCEPT !.reqs = IF allowed THEN @ + 1 ELSE @])

(* A minute since the window of a bucket began: its counts start again.    *)
WindowOver(fd) ==
    /\ fd \in DOMAIN buckets
    /\ buckets' = [buckets EXCEPT ![fd] = [events |-> 0, reqs |-> 0]]
    /\ UNCHANGED <<server, conns, leaked, subs, store, work, http, history>>

(***************************************************************************)
(* Connections.  close_fn has to close the socket when there is one, and   *)
(* on_close does not: the socket is not given out again.                   *)
(***************************************************************************)

(* on_open; the connection is refused when the table is full.              *)
OnOpen(fd) ==
    /\ server = "on" /\ http = Idle
    /\ fd \notin conns \cup leaked
    /\ Cardinality(conns) < MaxConns
    /\ conns' = conns \cup {fd}
    /\ asked' = [asked EXCEPT ![fd] = {}]
    /\ UNCHANGED <<server, leaked, subs, buckets, store, work, http, stray, due>>

(* The slots of a connection, and the table with the slots of D alone.     *)
Slots == 1..MaxSubs

Of(fd) == {i \in DOMAIN subs : subs[i].fd = fd}

Only(D) == [i \in D |-> subs[i]]

(* sub_manager_remove_all, through the disconnect callback.                *)
Without(fd) == Only(DOMAIN subs \ Of(fd))

(* Mutant of OnClose: the socket is closed, and can be given out again.    *)
OnCloseFreeing(fd) ==
    /\ server = "on" /\ http = Idle
    /\ fd \in conns
    /\ subs' = Without(fd)
    /\ conns' = conns \ {fd}
    /\ due' = {d \in due : d.fd # fd}
    /\ UNCHANGED <<server, leaked, buckets, store, work, http, asked, stray>>

(* Mutant of OnClose: the disconnect callback was never set.               *)
OnCloseSilently(fd) ==
    /\ server = "on" /\ http = Idle
    /\ fd \in conns
    /\ conns' = conns \ {fd}
    /\ leaked' = leaked \cup {fd}
    /\ due' = {d \in due : d.fd # fd}
    /\ UNCHANGED <<server, subs, buckets, store, work, http, asked, stray>>

(* The peer closes, sends a CLOSE or too large a frame, fails to answer or *)
(* is purged as the least recently used.                                   *)
OnClose(fd) ==
    /\ server = "on" /\ http = Idle
    /\ fd \in conns
    /\ subs' = Without(fd)
    /\ conns' = conns \ {fd}
    /\ leaked' = leaked \cup {fd}
    /\ due' = {d \in due : d.fd # fd}
    /\ UNCHANGED <<server, buckets, store, work, http, asked, stray>>

(***************************************************************************)
(* sub_manager_match_json and storage_save_event_json, each under its lock.*)
(***************************************************************************)

(* filter_matches_event; the author is what pubkey_hex spells.             *)
Matches(f, e, author) ==
    /\ f.kinds = {} \/ e.kind \in f.kinds
    /\ f.authors = {} \/ author \in f.authors
    /\ f.since > 0 => e.date >= f.since
    /\ f.until > 0 => e.date <= f.until

(* The slots that are to have an event, and what is sent for a slot.       *)
Matched(e, author) == {i \in DOMAIN subs : \E f \in subs[i].filters : Matches(f, e, author)}

SendFor(i, e) == [fd |-> subs[i].fd, id |-> subs[i].id, ev |-> e]

(* Who is to have it whatever its author.                                  *)
Expecting(e) ==
    {SendFor(i, e) : i \in {j \in DOMAIN subs :
                              \E f \in subs[j].filters : f.authors = {} /\ Matches(f, e, Short)}}

(* Neither known nor is the index full.                                    *)
CanStore(e) == e \notin store /\ Cardinality(store) < MaxStore

(* What reaches a connection is under an id it has asked for, or under the *)
(* first 64 characters of one.                                             *)
Asked(fd) == {Cut[id] : id \in asked[fd]}

Deliver(m) ==
    /\ stray' = (stray \/ m.id \notin Asked(m.fd))
    /\ due' = due \ {m}

(* Mutant of Queue: what does not fit takes the place of the last one.     *)
QueueReplacing(m) ==
    \/ /\ server \in {"on", "stopping"}
       /\ work' = IF Len(work) < MaxWork THEN Append(work, m) ELSE [work EXCEPT ![MaxWork] = m]
       /\ UNCHANGED due
    \/ due' = due \ {m} /\ UNCHANGED work

(* ws_server_send from outside the request of that socket: a copy is       *)
(* queued for the server's task; no memory or no room: lost.               *)
Queue(m) ==
    \/ /\ server \in {"on", "stopping"} /\ Len(work) < MaxWork
       /\ work' = Append(work, m)
       /\ UNCHANGED due
    \/ due' = due \ {m} /\ UNCHANGED work

(***************************************************************************)
(* handle_event.  It reads the author's key, and for a deletion a second   *)
(* time (deletion_process_json), from the parsed event it has just freed:  *)
(* the memory still holds it, or any other text.                           *)
(***************************************************************************)

(* The message is rate limited, malformed, dated 600 s after the time      *)
(* since power-on, already stored or of no valid signature: it is answered *)
(* and forgotten.                                                          *)
EventRefused(fd) ==
    /\ server = "on" /\ http = Idle /\ fd \in conns
    /\ \E allowed \in BOOLEAN : CheckEvent(fd, allowed)
    /\ UNCHANGED <<server, conns, leaked, subs, store, work, http, history>>

EventArrives(fd, e) ==
    /\ server = "on" /\ http = Idle /\ fd \in conns
    /\ CheckEvent(fd, TRUE)
    /\ e \notin store
    /\ http' = [at |-> "save", fd |-> fd, ev |-> e]
    /\ UNCHANGED <<server, conns, leaked, subs, store, work, history>>

EventSaved ==
    /\ http.at = "save"
    /\ CanStore(http.ev)
    /\ store' = store \cup {http.ev}
    /\ due' = due \cup Expecting(http.ev)
    /\ http' = [http EXCEPT !.at = "delete"]
    /\ UNCHANGED <<server, tables, work, asked, stray>>

(* "relay full"; the file cannot be written: "storage error".              *)
EventNotSaved ==
    /\ http.at = "save"
    /\ http' = Idle
    /\ UNCHANGED <<server, tables, store, work, history>>

(* delete_by_e_tags: whoever sent what is named.                           *)
Named(e) == {x \in store : x.name \in e.etags}

(* delete_by_k_tags: what has one of the kinds, 0 for all, and begins with *)
(* the same four bytes of a key; a text too short for a key finds          *)
(* everyone's.  Blank has no id to delete it by.                           *)
OfKind(e, author) ==
    {x \in store \ {Blank} : /\ 0 \in e.ktags \/ x.kind \in e.ktags
                             /\ author \in {x.author, Short}}

(* delete_by_a_tags: nothing.  It finds events of the kind and the author, *)
(* then looks up the text of each as its id.                               *)
Addressed == {}

(* deletion_process_json of an event of kind 5.                            *)
EventDeletes ==
    /\ http.at = "delete"
    /\ \E author \in Authors :
          http' = [at |-> "deleting", fd |-> http.fd, ev |-> http.ev,
                   del |-> IF http.ev.kind = 5
                           THEN Named(http.ev) \cup Addressed \cup OfKind(http.ev, author)
                           ELSE {}]
    /\ UNCHANGED <<server, tables, store, work, history>>

(* storage_delete_event, under its lock, one after the other.              *)
EventDeleted ==
    /\ http.at = "deleting"
    /\ \E x \in http.del :
          /\ store' = store \ {x}
          /\ http' = [http EXCEPT !.del = @ \ {x}]
    /\ UNCHANGED <<server, tables, work, history>>

(* broadcaster_fanout_json: a snapshot of the slots that match.            *)
EventMatched ==
    /\ http.at = "deleting" /\ http.del = {}
    /\ \E author \in Authors :
          LET matched == Matched(http.ev, author) IN
          http' = [at |-> "send", fd |-> http.fd,
                   to |-> [i \in matched |-> SendFor(i, http.ev)]]
    /\ UNCHANGED <<server, tables, store, work, history>>

First(i, S) == i \in S /\ \A j \in S : i <= j

(* Slot by slot; the sender's own subscription is served at once, the      *)
(* others by way of the queue.                                             *)
EventSent ==
    /\ http.at = "send"
    /\ \E i \in DOMAIN http.to :
          /\ First(i, DOMAIN http.to)
          /\ LET m == http.to[i] IN
             IF m.fd = http.fd THEN Deliver(m) /\ UNCHANGED work ELSE Queue(m) /\ UNCHANGED stray
          /\ http' = [http EXCEPT !.to = [j \in DOMAIN http.to \ {i} |-> http.to[j]]]
    /\ UNCHANGED <<server, tables, store, asked>>

EventDone ==
    /\ http.at = "send" /\ DOMAIN http.to = {}
    /\ http' = Idle
    /\ UNCHANGED <<server, tables, store, work, history>>

(***************************************************************************)
(* handle_req, handle_close.                                               *)
(***************************************************************************)
ReqRefused(fd) ==
    /\ server = "on" /\ http = Idle /\ fd \in conns
    /\ CheckReq(fd, FALSE)
    /\ UNCHANGED <<server, conns, leaked, subs, store, work, http, history>>

(* The stored events of the first kind asked for are sent (no more than    *)
(* one kind is looked for), then EOSE.                                     *)
ReqAnswered(fd, id, f) ==
    /\ server = "on" /\ http = Idle /\ fd \in conns
    /\ CheckReq(fd, TRUE)
    /\ asked' = [asked EXCEPT ![fd] = @ \cup {id}]
    /\ http' = [at |-> "add", fd |-> fd, id |-> id, filter |-> f]
    /\ UNCHANGED <<server, conns, leaked, subs, store, work, stray, due>>

(* find_sub: the whole id against the ones kept, which are cut.            *)
Found(fd, id) == {i \in Of(fd) : subs[i].id = id}

(* filter_copy: the whole filter, or for want of memory none.              *)
Copies(f) == {{f}, {}}

(* sub_manager_add: an id that is in use gets a copy of the new filter, if *)
(* none then none at all; a new one the first free slot.  Limits and want  *)
(* of memory are silent (its result is not looked at).                     *)
ReqAdded ==
    /\ http.at = "add"
    /\ \/ \E i \in Slots, filters \in Copies(http.filter) :
             /\ First(i, Found(http.fd, http.id))
             /\ subs' = [subs EXCEPT ![i].filters = filters]
       \/ /\ Found(http.fd, http.id) = {}
          /\ Cardinality(Of(http.fd)) < MaxPerConn
          /\ \E i \in Slots :
                /\ First(i, Slots \ DOMAIN subs)
                /\ subs' = [j \in DOMAIN subs \cup {i} |->
                              IF j = i THEN [fd |-> http.fd, id |-> Cut[http.id],
                                             filters |-> {http.filter}]
                                       ELSE subs[j]]
       \/ /\ Found(http.fd, http.id) = {}
          /\ UNCHANGED subs
    /\ http' = Idle
    /\ UNCHANGED <<server, conns, leaked, buckets, store, work, history>>

(* sub_manager_remove takes the first one it finds; none, if the id is     *)
(* longer than what is kept of it.                                         *)
HandleClose(fd, id) ==
    /\ server = "on" /\ http = Idle /\ fd \in conns
    /\ \E i \in Slots : First(i, Found(fd, id)) /\ subs' = Only(DOMAIN subs \ {i})
    /\ UNCHANGED <<server, conns, leaked, buckets, store, work, http, history>>

(* ws_async_send, in the server's task; a socket without a session: an     *)
(* error that is logged.                                                   *)
AsyncSend ==
    /\ http = Idle /\ work # <<>>
    /\ work' = Tail(work)
    /\ IF Head(work).fd \in conns THEN Deliver(Head(work)) ELSE UNCHANGED <<stray, due>>
    /\ UNCHANGED <<server, tables, store, http, asked>>

(***************************************************************************)
(* local_relay_publish, in the sync task.  Its caller hands over the       *)
(* subscription id of a remote relay's EVENT: without an id, a key, a kind *)
(* and a date it is stored as Blank, and nobody is told.                   *)
(***************************************************************************)
Publish ==
    /\ CanStore(Blank)
    /\ store' = store \cup {Blank}
    /\ UNCHANGED <<server, tables, work, http, history>>

(***************************************************************************)
(* local_relay_start, at power-on; local_relay_stop, in stop_services.     *)
(***************************************************************************)
Start ==
    /\ server = "off"
    /\ server' = "on"
    /\ UNCHANGED <<tables, store, work, http, history>>

(* ws_server_stop sets the callbacks to NULL first ...                     *)
StopBegins ==
    /\ server = "on"
    /\ server' = "stopping"
    /\ UNCHANGED <<tables, store, work, http, history>>

(* ... then httpd_stop waits for the handler that runs and closes every    *)
(* session; the close callback returns at once, the subscriptions stay.    *)
StopEnds ==
    /\ server = "stopping" /\ http = Idle
    /\ server' = "stopped"
    /\ leaked' = leaked \cup conns
    /\ conns' = {} /\ work' = <<>> /\ due' = {}
    /\ UNCHANGED <<subs, buckets, store, http, asked, stray>>

Init ==
    /\ server = "off"
    /\ conns = {} /\ leaked = {} /\ subs = [i \in {} |-> Idle] /\ buckets = [f \in {} |-> Idle]
    /\ store = {} /\ work = <<>>
    /\ http = Idle
    /\ asked = [f \in Fds |-> {}] /\ stray = FALSE
    /\ due = {}

HttpSteps == \/ EventSaved \/ EventNotSaved \/ EventDeletes \/ EventDeleted \/ EventMatched
             \/ EventSent \/ EventDone \/ ReqAdded

Next ==
    \/ Start \/ StopBegins \/ StopEnds
    \/ HttpSteps \/ AsyncSend \/ Publish
    \/ \E fd \in Fds : \/ OnOpen(fd) \/ OnClose(fd) \/ WindowOver(fd)
                       \/ EventRefused(fd) \/ ReqRefused(fd)
                       \/ \E e \in Events : EventArrives(fd, e)
                       \/ \E id \in SubIds : \/ HandleClose(fd, id)
                                             \/ \E f \in Filters : ReqAnswered(fd, id, f)

Spec == Init /\ [][Next]_vars

(***************************************************************************)
(* Properties.                                                             *)
(***************************************************************************)
Sends == [fd : Fds, id : SubIds, ev : Events]

Subscriptions == [fd : Fds, id : SubIds, filters : SUBSET Filters]

(* Type invariant; the tables and the queue keep within their limits.      *)
TypeOK ==
    /\ server \in {"off", "on", "stopping", "stopped"}
    /\ conns \subseteq Fds /\ Cardinality(conns) <= MaxConns
    /\ leaked \subseteq Fds
    /\ DOMAIN subs \subseteq Slots /\ \A i \in DOMAIN subs : subs[i] \in Subscriptions
    /\ \A fd \in Fds : Cardinality(Of(fd)) <= MaxPerConn
    /\ DOMAIN buckets \subseteq Fds /\ Cardinality(DOMAIN buckets) <= MaxBuckets
    /\ \A f \in DOMAIN buckets : buckets[f].events <= EventLimit /\ buckets[f].reqs <= ReqLimit
    /\ store \subseteq Events \cup {Blank} /\ Cardinality(store) <= MaxStore
    /\ work \in Seq(Sends) /\ Len(work) <= MaxWork
    /\ due \subseteq Sends
    /\ stray \in BOOLEAN

(* While the server runs nobody is subscribed who is not connected, and a  *)
(* connection has two subscriptions of one id only if it asked for an id   *)
(* of more than 64 characters, which is kept cut and never found again.    *)
(* And all tables keep to their limits.                                    *)
SubsAreConnected ==
    /\ TypeOK
    /\ server \in {"on", "stopping"} => \A i \in DOMAIN subs : subs[i].fd \in conns
    /\ \A i, j \in DOMAIN subs :
          i # j /\ subs[i].fd = subs[j].fd /\ subs[i].id = subs[j].id =>
             \E id \in asked[subs[i].fd] : Cut[id] # id /\ Cut[id] = subs[i].id

(* A connection only gets events under subscription ids it has asked for,  *)
(* or under the first 64 characters of one: a send that was queued for a   *)
(* connection that is closed since does not reach the next one (which      *)
(* never has the same socket).                                             *)
NothingStray == ~stray

(* A subscriber whose filter names no author is not forgotten: whenever    *)
(* the server's task is between two messages, each event a client has sent *)
(* and the relay has stored since that subscription was made is in the     *)
(* queue for it or was sent, unless its connection has closed, or the      *)
(* queue or the memory was full.  (One that names authors may be passed    *)
(* over: handle_event looks them up in freed memory.)                      *)
NothingForgotten ==
    http = Idle => \A m \in due : \E i \in DOMAIN work : work[i] = m
=============================================================================
