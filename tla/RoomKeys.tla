------------------------------ MODULE RoomKeys ------------------------------
(***************************************************************************)
(* The publishing keys of rooms: configure/channel.go, as called by the    *)
(* control API (protocol/api/api.go, handleGet, handleReset, handleDelete) *)
(* and by rtmp.go's handleConn.  One go-cache map holds both directions,   *)
(* room -> key and key -> room.  Each access to it is atomic; a request,   *)
(* served by its own goroutine, makes several.                             *)
(*                                                                         *)
(* A key is 48 random letters.  A draw is taken to be new: never equal to  *)
(* an earlier draw or to a room's name.                                    *)
(***************************************************************************)
EXTENDS Integers, FiniteSets

CONSTANTS
    Requests,  \* API requests and publish attempts, one goroutine each
    Rooms,     \* room names
    KeyPool,   \* bound: the keys that can be drawn
    None       \* absent

ASSUME NamesAssumption ==
    /\ Rooms \intersect KeyPool = {}
    /\ None \notin Rooms \union KeyPool

Names == Rooms \union KeyPool

VARIABLES
    localCache, \* the map; None where there is no entry
    rpc,        \* where each request is
    rroom,      \* the room it is about
    rkey,       \* the key it has drawn, read or answered
    owner,      \* history: the room each key was drawn for
    published,  \* history: what GetChannel answered publishers
    shut        \* history: rooms deleted and not given a key since

vars == <<localCache, rpc, rroom, rkey, owner, published, shut>>

Init ==
    /\ localCache = [n \in Names |-> None]
    /\ rpc = [q \in Requests |-> "new"]
    /\ rroom = [q \in Requests |-> None]
    /\ rkey = [q \in Requests |-> None]
    /\ owner = [k \in KeyPool |-> None]
    /\ published = {}
    /\ shut = {}

-----------------------------------------------------------------------------
(* GetKey: answer the room's key, or go on to SetKey.                      *)
GetKey(q, r) ==
    /\ rpc[q] = "new"
    /\ rroom' = [rroom EXCEPT ![q] = r]
    /\ rkey' = [rkey EXCEPT ![q] = localCache[r]]
    /\ rpc' = [rpc EXCEPT ![q] = IF localCache[r] = None THEN "draw" ELSE "answered"]
    /\ UNCHANGED <<localCache, owner, published, shut>>

(* handleReset calls SetKey straight away.                                 *)
ResetKey(q, r) ==
    /\ rpc[q] = "new"
    /\ rroom' = [rroom EXCEPT ![q] = r]
    /\ rpc' = [rpc EXCEPT ![q] = "draw"]
    /\ UNCHANGED <<localCache, rkey, owner, published, shut>>

(* SetKey: draw a key, store room -> key, then key -> room.                *)
SetKeyDrawAny(q) ==
    /\ rpc[q] = "draw"
    /\ \E k \in KeyPool :
         /\ rkey' = [rkey EXCEPT ![q] = k]
         /\ owner' = [owner EXCEPT ![k] = rroom[q]]
    /\ rpc' = [rpc EXCEPT ![q] = "setRoom"]
    /\ shut' = shut \ {rroom[q]}
    /\ UNCHANGED <<localCache, rroom, published>>
SetKeyDraw(q) ==
    /\ rpc[q] = "draw"
    /\ \E k \in KeyPool :
         /\ owner[k] = None
         /\ localCache[k] = None
         /\ rkey' = [rkey EXCEPT ![q] = k]
         /\ owner' = [owner EXCEPT ![k] = rroom[q]]
    /\ rpc' = [rpc EXCEPT ![q] = "setRoom"]
    /\ shut' = shut \ {rroom[q]}
    /\ UNCHANGED <<localCache, rroom, published>>

SetKeyRoom(q) ==
    /\ rpc[q] = "setRoom"
    /\ localCache' = [localCache EXCEPT ![rroom[q]] = rkey[q]]
    /\ rpc' = [rpc EXCEPT ![q] = "setKey"]
    /\ UNCHANGED <<rroom, rkey, owner, published, shut>>

SetKeyToItself(q) ==
    /\ rpc[q] = "setKey"
    /\ localCache' = [localCache EXCEPT ![rkey[q]] = rkey[q]]
    /\ rpc' = [rpc EXCEPT ![q] = "answered"]
    /\ UNCHANGED <<rroom, rkey, owner, published, shut>>
SetKeyForgotten(q) ==
    /\ rpc[q] = "setKey"
    /\ rpc' = [rpc EXCEPT ![q] = "answered"]
    /\ UNCHANGED <<localCache, rroom, rkey, owner, published, shut>>
SetKeyKey(q) ==
    /\ rpc[q] = "setKey"
    /\ localCache' = [localCache EXCEPT ![rkey[q]] = rroom[q]]
    /\ rpc' = [rpc EXCEPT ![q] = "answered"]
    /\ UNCHANGED <<rroom, rkey, owner, published, shut>>

(* DeleteChannel: read the room's key, delete the room, delete that key.   *)
DeleteChannelGet(q, r) ==
    /\ rpc[q] = "new"
    /\ rroom' = [rroom EXCEPT ![q] = r]
    /\ rkey' = [rkey EXCEPT ![q] = localCache[r]]
    /\ rpc' = [rpc EXCEPT ![q] = IF localCache[r] = None THEN "notFound" ELSE "delRoom"]
    /\ UNCHANGED <<localCache, owner, published, shut>>

DeleteChannelKeepsRoom(q) ==
    /\ rpc[q] = "delRoom"
    /\ rpc' = [rpc EXCEPT ![q] = "delKey"]
    /\ UNCHANGED <<localCache, rroom, rkey, owner, published, shut>>
DeleteChannelRoom(q) ==
    /\ rpc[q] = "delRoom"
    /\ localCache' = [localCache EXCEPT ![rroom[q]] = None]
    /\ rpc' = [rpc EXCEPT ![q] = "delKey"]
    /\ UNCHANGED <<rroom, rkey, owner, published, shut>>

(* A room is shut when its deletion ends with no SetKey under way for it.  *)
Setting(r) == \E q \in Requests : rroom[q] = r /\ rpc[q] \in {"setRoom", "setKey"}
DeleteChannelKeepsKey(q) ==
    /\ rpc[q] = "delKey"
    /\ rpc' = [rpc EXCEPT ![q] = "deleted"]
    /\ shut' = IF Setting(rroom[q]) \/ localCache[rroom[q]] # None
               THEN shut ELSE shut \union {rroom[q]}
    /\ UNCHANGED <<localCache, rroom, rkey, owner, published>>
DeleteChannelKey(q) ==
    /\ rpc[q] = "delKey"
    /\ localCache' = [localCache EXCEPT ![rkey[q]] = None]
    /\ rpc' = [rpc EXCEPT ![q] = "deleted"]
    /\ shut' = IF Setting(rroom[q]) \/ localCache[rroom[q]] # None
               THEN shut ELSE shut \union {rroom[q]}
    /\ UNCHANGED <<rroom, rkey, owner, published>>

(* GetChannel: a publisher presents a name; a miss is "invalid key".       *)
GetChannel(q, n) ==
    /\ rpc[q] = "new"
    /\ rpc' = [rpc EXCEPT ![q] = IF localCache[n] = None THEN "refused" ELSE "accepted"]
    /\ published' = IF localCache[n] = None THEN published
                    ELSE published \union {[name |-> n, channel |-> localCache[n]]}
    /\ UNCHANGED <<localCache, rroom, rkey, owner, shut>>

Step(q) ==
    \/ SetKeyDraw(q) \/ SetKeyRoom(q) \/ SetKeyKey(q)
    \/ DeleteChannelRoom(q) \/ DeleteChannelKey(q)

Next ==
    \E q \in Requests :
        \/ \E r \in Rooms : GetKey(q, r) \/ ResetKey(q, r) \/ DeleteChannelGet(q, r)
        \/ \E n \in Names : GetChannel(q, n)
        \/ Step(q)

Spec == Init /\ [][Next]_vars

(* A request that has begun is carried through; nobody has to send one.    *)
FairSpec == Spec /\ \A q \in Requests : WF_vars(Step(q))

-----------------------------------------------------------------------------
(* The type invariant.                                                     *)
TypeOK ==
    /\ localCache \in [Names -> Names \union {None}]
    /\ \A r \in Rooms : localCache[r] \in KeyPool \union {None}
    /\ \A k \in KeyPool : localCache[k] \in Rooms \union {None}
    /\ rpc \in [Requests -> {"new", "draw", "setRoom", "setKey", "answered", "delRoom",
                             "delKey", "deleted", "notFound", "refused", "accepted"}]
    /\ rroom \in [Requests -> Rooms \union {None}]
    /\ rkey \in [Requests -> KeyPool \union {None}]
    /\ owner \in [KeyPool -> Rooms \union {None}]
    /\ published \subseteq [name : Names, channel : Names]
    /\ shut \subseteq Rooms

(* The key stored for a room admits its publisher to that room and to no   *)
(* other, or the SetKey that stored it is about to make it do so: gets,    *)
(* resets and deletes of the same room, interleaved in any way, never      *)
(* leave a room with a key that is refused (channel.go:27-28, 59-62).      *)
RoomKeyResolves ==
    \A r \in Rooms, k \in KeyPool :
        localCache[r] = k =>
            \/ localCache[k] = r
            \/ \E q \in Requests : rpc[q] = "setKey" /\ rkey[q] = k /\ rroom[q] = r

(* A publisher is never admitted to a room with the key of another one.    *)
NoCrossRoom ==
    \A x \in published : x.name \in KeyPool => x.channel = owner[x.name]

(* The answer of get or reset can be used: the key it names is accepted    *)
(* sooner or later, unless the room is deleted meanwhile.                  *)
AnswerUsable ==
    \A q \in Requests, k \in KeyPool :
        (rpc[q] = "answered" /\ rkey[q] = k)
            ~> (\/ localCache[k] = rroom[q]
                \/ \E d \in Requests : rpc[d] \in {"delKey", "deleted"} /\ rkey[d] = k)

(* After DeleteChannel the room's key no longer opens it.  The only keys   *)
(* that still do are those a reset, or a get at the same time, had drawn   *)
(* beside another one for that room: DeleteChannel removes the key it read *)
(* (channel.go:59), and a replaced key is never removed.                   *)
DeletedRoomShut ==
    \A r \in shut, k \in KeyPool :
        localCache[k] = r => \E other \in KeyPool \ {k} : owner[other] = r
=============================================================================
