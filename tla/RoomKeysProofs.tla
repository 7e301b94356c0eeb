--------------------------- MODULE RoomKeysProofs ---------------------------
(***************************************************************************)
(* Theorems about RoomKeys, for any number of requests, rooms and keys.    *)
(***************************************************************************)
EXTENDS RoomKeys, TLAPS

(* A request between draw and answer, or between look-up and deletion,     *)
(* has a room and a key.                                                   *)
Holding == {"setRoom", "setKey", "delRoom", "delKey"}

(* Ownership: the entries of a room, the entries of a key and the requests *)
(* that hold a key agree on the room the key was drawn for.                *)
Ownership ==
    /\ \A r \in Rooms : localCache[r] # None => owner[localCache[r]] = r
    /\ \A k \in KeyPool : localCache[k] # None => localCache[k] = owner[k]
    /\ \A q \in Requests : rpc[q] \in Holding =>
          rroom[q] \in Rooms /\ rkey[q] \in KeyPool /\ owner[rkey[q]] = rroom[q]
    /\ \A q \in Requests : rpc[q] = "draw" => rroom[q] \in Rooms

(* A drawn key is in its drawer's hands alone until it is stored for the   *)
(* room, and a deleter that has removed the room's entry has removed the   *)
(* only way to its key.                                                    *)
Exclusive ==
    /\ \A q \in Requests : rpc[q] = "setRoom" =>
          /\ \A r \in Rooms : localCache[r] # rkey[q]
          /\ \A d \in Requests : rpc[d] \in Holding /\ rkey[d] = rkey[q] => d = q
    /\ \A q \in Requests : rpc[q] = "delKey" =>
          \A r \in Rooms : localCache[r] # rkey[q]

(* The inductive invariant behind RoomKeyResolves and NoCrossRoom.         *)
KeyInv == TypeOK /\ Ownership /\ Exclusive /\ RoomKeyResolves /\ NoCrossRoom

(* Each part of KeyInv is preserved by every step.                         *)
LEMMA TypeKept ==
  ASSUME KeyInv, [Next]_vars PROVE TypeOK'
  <1> USE NamesAssumption DEF KeyInv, TypeOK, Names
  <1>1. ASSUME NEW q \in Requests, NEW r \in Rooms,
               GetKey(q, r) \/ ResetKey(q, r) \/ DeleteChannelGet(q, r)
        PROVE  TypeOK'
    BY <1>1 DEF GetKey, ResetKey, DeleteChannelGet
  <1>2. ASSUME NEW q \in Requests, NEW n \in Names, GetChannel(q, n)
        PROVE  TypeOK'
    BY <1>2 DEF GetChannel
  <1>3. ASSUME NEW q \in Requests, SetKeyDraw(q) PROVE TypeOK'
    BY <1>3 DEF SetKeyDraw, Ownership
  <1>4. ASSUME NEW q \in Requests, SetKeyRoom(q) \/ SetKeyKey(q) PROVE TypeOK'
    BY <1>4 DEF SetKeyRoom, SetKeyKey, Ownership, Holding
  <1>5. ASSUME NEW q \in Requests, DeleteChannelRoom(q) PROVE TypeOK'
    BY <1>5 DEF DeleteChannelRoom, Ownership, Holding
  <1>6. ASSUME NEW q \in Requests, DeleteChannelKey(q) PROVE TypeOK'
    BY <1>6 DEF DeleteChannelKey, Ownership, Holding
  <1>7. CASE UNCHANGED vars
    BY <1>7 DEF vars
  <1> QED
    BY <1>1, <1>2, <1>3, <1>4, <1>5, <1>6, <1>7 DEF Next, Step

(* A key answers only for the room it was drawn for, also after a step.    *)
LEMMA OwnershipKept ==
  ASSUME KeyInv, [Next]_vars PROVE Ownership'
  <1> USE NamesAssumption DEF KeyInv, TypeOK, Names, Ownership, Holding
  <1>1. ASSUME NEW q \in Requests, NEW r \in Rooms,
               GetKey(q, r) \/ ResetKey(q, r) \/ DeleteChannelGet(q, r)
        PROVE  Ownership'
    BY <1>1 DEF GetKey, ResetKey, DeleteChannelGet
  <1>2. ASSUME NEW q \in Requests, NEW n \in Names, GetChannel(q, n)
        PROVE  Ownership'
    BY <1>2 DEF GetChannel
  <1>3. ASSUME NEW q \in Requests, SetKeyDraw(q) PROVE Ownership'
    BY <1>3 DEF SetKeyDraw
  <1>4. ASSUME NEW q \in Requests, SetKeyRoom(q) PROVE Ownership'
    BY <1>4 DEF SetKeyRoom
  <1>5. ASSUME NEW q \in Requests, SetKeyKey(q) PROVE Ownership'
    BY <1>5 DEF SetKeyKey
  <1>6. ASSUME NEW q \in Requests, DeleteChannelRoom(q) PROVE Ownership'
    BY <1>6 DEF DeleteChannelRoom
  <1>7. ASSUME NEW q \in Requests, DeleteChannelKey(q) PROVE Ownership'
    BY <1>7 DEF DeleteChannelKey
  <1>8. CASE UNCHANGED vars
    BY <1>8 DEF vars
  <1> QED
    BY <1>1, <1>2, <1>3, <1>4, <1>5, <1>6, <1>7, <1>8 DEF Next, Step

(* A drawn key stays in one pair of hands until it is stored for its room. *)
LEMMA ExclusiveKept ==
  ASSUME KeyInv, [Next]_vars PROVE Exclusive'
  <1> USE NamesAssumption DEF KeyInv, TypeOK, Names, Ownership, Exclusive, Holding
  <1>1. ASSUME NEW q \in Requests, NEW r \in Rooms,
               GetKey(q, r) \/ ResetKey(q, r) \/ DeleteChannelGet(q, r)
        PROVE  Exclusive'
    BY <1>1 DEF GetKey, ResetKey, DeleteChannelGet
  <1>2. ASSUME NEW q \in Requests, NEW n \in Names, GetChannel(q, n)
        PROVE  Exclusive'
    BY <1>2 DEF GetChannel
  <1>3. ASSUME NEW q \in Requests, SetKeyDraw(q) PROVE Exclusive'
    BY <1>3 DEF SetKeyDraw
  <1>4. ASSUME NEW q \in Requests, SetKeyRoom(q) PROVE Exclusive'
    BY <1>4 DEF SetKeyRoom
  <1>5. ASSUME NEW q \in Requests, SetKeyKey(q) PROVE Exclusive'
    BY <1>5 DEF SetKeyKey
  <1>6. ASSUME NEW q \in Requests, DeleteChannelRoom(q) PROVE Exclusive'
    BY <1>6 DEF DeleteChannelRoom
  <1>7. ASSUME NEW q \in Requests, DeleteChannelKey(q) PROVE Exclusive'
    BY <1>7 DEF DeleteChannelKey
  <1>8. CASE UNCHANGED vars
    BY <1>8 DEF vars
  <1> QED
    BY <1>1, <1>2, <1>3, <1>4, <1>5, <1>6, <1>7, <1>8 DEF Next, Step

(* The key stored for a room keeps resolving to that room.                 *)
LEMMA ResolvesKept ==
  ASSUME KeyInv, [Next]_vars PROVE RoomKeyResolves'
  <1> USE NamesAssumption DEF KeyInv, TypeOK, Names, RoomKeyResolves
  <1>1. ASSUME NEW q \in Requests, NEW r \in Rooms,
               GetKey(q, r) \/ ResetKey(q, r) \/ DeleteChannelGet(q, r)
        PROVE  RoomKeyResolves'
    BY <1>1 DEF GetKey, ResetKey, DeleteChannelGet
  <1>2. ASSUME NEW q \in Requests, NEW n \in Names, GetChannel(q, n)
        PROVE  RoomKeyResolves'
    BY <1>2 DEF GetChannel
  <1>3. ASSUME NEW q \in Requests, SetKeyDraw(q) PROVE RoomKeyResolves'
    BY <1>3 DEF SetKeyDraw
  <1>4. ASSUME NEW q \in Requests, SetKeyRoom(q) PROVE RoomKeyResolves'
    BY <1>4 DEF SetKeyRoom, Ownership, Holding
  <1>5. ASSUME NEW q \in Requests, SetKeyKey(q) PROVE RoomKeyResolves'
    BY <1>5 DEF SetKeyKey, Ownership, Holding
  <1>6. ASSUME NEW q \in Requests, DeleteChannelRoom(q) PROVE RoomKeyResolves'
    BY <1>6 DEF DeleteChannelRoom, Ownership, Holding
  <1>7. ASSUME NEW q \in Requests, DeleteChannelKey(q) PROVE RoomKeyResolves'
    BY <1>7 DEF DeleteChannelKey, Ownership, Exclusive, Holding
  <1>8. CASE UNCHANGED vars
    BY <1>8 DEF vars
  <1> QED
    BY <1>1, <1>2, <1>3, <1>4, <1>5, <1>6, <1>7, <1>8 DEF Next, Step

(* GetChannel, the only step that answers a publisher, answers the owner.  *)
LEMMA NoCrossKept ==
  ASSUME KeyInv, [Next]_vars PROVE NoCrossRoom'
  <1> USE NamesAssumption DEF KeyInv, TypeOK, Names, NoCrossRoom
  <1>1. ASSUME NEW q \in Requests, NEW n \in Names, GetChannel(q, n)
        PROVE  NoCrossRoom'
    BY <1>1 DEF GetChannel, Ownership
  <1>2. ASSUME NEW q \in Requests, SetKeyDraw(q) PROVE NoCrossRoom'
    BY <1>2 DEF SetKeyDraw
  <1>3. CASE UNCHANGED <<published, owner>>
    BY <1>3
  <1>4. ASSUME NEW q \in Requests, NEW r \in Rooms,
               GetKey(q, r) \/ ResetKey(q, r) \/ DeleteChannelGet(q, r)
        PROVE  UNCHANGED <<published, owner>>
    BY <1>4 DEF GetKey, ResetKey, DeleteChannelGet
  <1>5. ASSUME NEW q \in Requests,
               \/ SetKeyRoom(q) \/ SetKeyKey(q)
               \/ DeleteChannelRoom(q) \/ DeleteChannelKey(q)
        PROVE  UNCHANGED <<published, owner>>
    BY <1>5 DEF SetKeyRoom, SetKeyKey, DeleteChannelRoom, DeleteChannelKey
  <1> QED
    BY <1>1, <1>2, <1>3, <1>4, <1>5 DEF Next, Step, vars

(* KeyInv is inductive.                                                    *)
LEMMA KeyInvariant == Spec => []KeyInv
  <1>1. Init => KeyInv
    BY NamesAssumption
    DEF Init, KeyInv, TypeOK, Ownership, Exclusive, RoomKeyResolves, NoCrossRoom,
        Names, Holding
  <1>2. KeyInv /\ [Next]_vars => KeyInv'
    <2> SUFFICES ASSUME KeyInv, [Next]_vars PROVE KeyInv'
      OBVIOUS
    <2> QED
      BY TypeKept, OwnershipKept, ExclusiveKept, ResolvesKept, NoCrossKept
      DEF KeyInv
  <1> QED
    BY <1>1, <1>2, PTL DEF Spec

(* Type correctness: rooms map to keys and keys to rooms.                  *)
THEOREM TypeCorrect == Spec => []TypeOK
  BY KeyInvariant, PTL DEF KeyInv

(* However get, reset and delete requests interleave, the key stored for a *)
(* room is one that opens it, or is about to be.                           *)
THEOREM StoredKeyResolves == Spec => []RoomKeyResolves
  BY KeyInvariant, PTL DEF KeyInv

(* No interleaving lets a key open a room it was not drawn for.            *)
THEOREM KeysStayInRoom == Spec => []NoCrossRoom
  BY KeyInvariant, PTL DEF KeyInv

(* No SetKey is under way for a room that is shut: a deletion shuts the    *)
(* room only if there is none, and a draw for the room opens it again.     *)
ShutQuiet == \A r \in shut : ~Setting(r)

(* The inductive invariant behind DeletedRoomShut.                         *)
ShutInv == KeyInv /\ ShutQuiet /\ DeletedRoomShut

(* Only SetKeyDraw begins a setting of a room, and it takes the room out   *)
(* of shut; only DeleteChannelKey adds a room, and only a quiet one.       *)
LEMMA ShutQuietKept ==
  ASSUME ShutInv, [Next]_vars PROVE ShutQuiet'
  <1> USE NamesAssumption DEF ShutInv, KeyInv, TypeOK, ShutQuiet, Setting
  <1>1. ASSUME NEW q \in Requests, NEW r \in Rooms,
               GetKey(q, r) \/ ResetKey(q, r) \/ DeleteChannelGet(q, r)
        PROVE  ShutQuiet'
    BY <1>1 DEF GetKey, ResetKey, DeleteChannelGet
  <1>2. ASSUME NEW q \in Requests, NEW n \in Names, GetChannel(q, n)
        PROVE  ShutQuiet'
    BY <1>2 DEF GetChannel
  <1>3. ASSUME NEW q \in Requests, SetKeyDraw(q) PROVE ShutQuiet'
    BY <1>3 DEF SetKeyDraw
  <1>4. ASSUME NEW q \in Requests,
               \/ SetKeyRoom(q) \/ SetKeyKey(q) \/ DeleteChannelRoom(q)
        PROVE  ShutQuiet'
    BY <1>4 DEF SetKeyRoom, SetKeyKey, DeleteChannelRoom
  <1>5. ASSUME NEW q \in Requests, DeleteChannelKey(q) PROVE ShutQuiet'
    BY <1>5 DEF DeleteChannelKey
  <1>6. CASE UNCHANGED vars
    BY <1>6 DEF vars
  <1> QED
    BY <1>1, <1>2, <1>3, <1>4, <1>5, <1>6 DEF Next, Step

(* A deletion removes the key it read; a key that still opens the room is  *)
(* another one, and the key just removed is the witness.                   *)
LEMMA ShutKept ==
  ASSUME ShutInv, [Next]_vars PROVE DeletedRoomShut'
  <1> USE NamesAssumption DEF ShutInv, KeyInv, TypeOK, Names, DeletedRoomShut
  <1>1. ASSUME NEW q \in Requests, NEW r \in Rooms,
               GetKey(q, r) \/ ResetKey(q, r) \/ DeleteChannelGet(q, r)
        PROVE  DeletedRoomShut'
    BY <1>1 DEF GetKey, ResetKey, DeleteChannelGet
  <1>2. ASSUME NEW q \in Requests, NEW n \in Names, GetChannel(q, n)
        PROVE  DeletedRoomShut'
    BY <1>2 DEF GetChannel
  <1>3. ASSUME NEW q \in Requests, SetKeyDraw(q) PROVE DeletedRoomShut'
    BY <1>3 DEF SetKeyDraw
  <1>4. ASSUME NEW q \in Requests, SetKeyRoom(q) PROVE DeletedRoomShut'
    BY <1>4 DEF SetKeyRoom, Ownership, Holding
  <1>5. ASSUME NEW q \in Requests, SetKeyKey(q) PROVE DeletedRoomShut'
    BY <1>5 DEF SetKeyKey, Ownership, Holding, ShutQuiet, Setting
  <1>6. ASSUME NEW q \in Requests, DeleteChannelRoom(q) PROVE DeletedRoomShut'
    BY <1>6 DEF DeleteChannelRoom, Ownership, Holding
  <1>7. ASSUME NEW q \in Requests, DeleteChannelKey(q) PROVE DeletedRoomShut'
    BY <1>7 DEF DeleteChannelKey, Ownership, Holding
  <1>8. CASE UNCHANGED vars
    BY <1>8 DEF vars
  <1> QED
    BY <1>1, <1>2, <1>3, <1>4, <1>5, <1>6, <1>7, <1>8 DEF Next, Step

(* However deletions interleave with gets and resets, a room whose         *)
(* deletion has ended is opened only by a key drawn beside the one that    *)
(* the deletion removed.                                                   *)
THEOREM DeletedRoomStaysShut == Spec => []DeletedRoomShut
  <1>1. Init => ShutQuiet /\ DeletedRoomShut
    BY DEF Init, ShutQuiet, DeletedRoomShut
  <1>2. KeyInv /\ ShutQuiet /\ DeletedRoomShut /\ [Next]_vars
           => ShutQuiet' /\ DeletedRoomShut'
    BY ShutQuietKept, ShutKept DEF ShutInv
  <1> QED
    BY <1>1, <1>2, KeyInvariant, PTL DEF Spec
=============================================================================
