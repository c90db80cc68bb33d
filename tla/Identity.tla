------------------------------ MODULE Identity ------------------------------
(***************************************************************************)
(* Durable identity across the snapshots of one schedule: the IdentityMap  *)
(* that the source migration works on and that every baseline version      *)
(* carries.  A dictionary of the code is a function with a finite domain;  *)
(* its keys are <<kind, text>>.  A minted UUIDv5 is the name it is derived *)
(* from, <<kind, external uid, generation>>: the hash is injective as far  *)
(* as the code relies on it.  GUIDs are already in canonical spelling.     *)
(***************************************************************************)
EXTENDS Integers, Sequences

CONSTANT None       \* Python's None

(* The dictionaries.                                                       *)
EmptyMap == [key \in {} |-> None]
At(f, key) == IF key \in DOMAIN f THEN f[key] ELSE None
Put(f, key, value) == [k \in DOMAIN f \union {key} |-> IF k = key THEN value ELSE f[k]]
Without(f, keys) == [k \in DOMAIN f \ keys |-> f[k]]

NoIdentity ==
    [byExternal |-> EmptyMap, byGuid |-> EmptyMap, byBusinessKey |-> EmptyMap,
     retired |-> EmptyMap, externalOf |-> EmptyMap, guidOf |-> EmptyMap,
     ambiguous |-> {}]

(* Times an external uid was released by an entity that was rekeyed.        *)
GenerationForgotten(id, kind, external) == 0
Generation(id, kind, external) ==
    IF <<kind, external>> \in DOMAIN id.retired THEN id.retired[<<kind, external>>] ELSE 0

MintUid(kind, external, generation) == <<kind, external, generation>>

----------------------------------------------------------------------------
(* GUIDs that two rows of one document claim: forget what they taught, for  *)
(* whatever entity holds one as its current GUID, and never learn them again. *)
Quarantined(id, claimed) ==
    LET guids == {claim[2] : claim \in claimed}
    IN [id EXCEPT !.ambiguous = @ \union claimed,
                  !.byGuid = Without(@, claimed),
                  !.guidOf = Without(@, {uid \in DOMAIN @ : @[uid] \in guids})]

UsableAlways(id, kind, guid) == guid
Usable(id, kind, guid) == IF <<kind, guid>> \in id.ambiguous THEN None ELSE guid

(* Which known entity a row is, by the strongest key that finds one.        *)
Match(id, kind, external, guid, businessKey) ==
    LET Finds(f, key) == key # None /\ <<kind, key>> \in DOMAIN f
    IN IF <<kind, external>> \in DOMAIN id.byExternal
       THEN [uid |-> id.byExternal[<<kind, external>>], by |-> "external_uid"]
       ELSE IF Finds(id.byGuid, guid)
       THEN [uid |-> id.byGuid[<<kind, guid>>], by |-> "guid"]
       ELSE IF Finds(id.byBusinessKey, businessKey)
       THEN [uid |-> id.byBusinessKey[<<kind, businessKey>>], by |-> "business_key"]
       ELSE [uid |-> MintUid(kind, external, Generation(id, kind, external)), by |-> "nothing"]

(* The key the entity was known by is released when it moves to another.    *)
ReleasedNever(id, kind, external, uid) == {}
Released(id, kind, external, uid) ==
    IF uid \in DOMAIN id.externalOf /\ id.externalOf[uid] # external
    THEN {<<kind, id.externalOf[uid]>>} ELSE {}

Recorded(id, kind, external, uid, guid, businessKey) ==
    LET released == Released(id, kind, external, uid)
    IN [id EXCEPT
          !.byExternal = Put(Without(@, released), <<kind, external>>, uid),
          !.retired = [k \in DOMAIN @ \union released |->
                          (IF k \in DOMAIN @ THEN @[k] ELSE 0)
                          + (IF k \in released THEN 1 ELSE 0)],
          !.externalOf = Put(@, uid, external),
          !.byGuid = IF guid = None THEN @ ELSE Put(@, <<kind, guid>>, uid),
          !.guidOf = IF guid = None THEN @ ELSE Put(@, uid, guid),
          !.byBusinessKey =
              IF businessKey = None THEN @ ELSE Put(@, <<kind, businessKey>>, uid)]

(* What the import reports of the row: how it was matched, the key it was   *)
(* known by, and whether its GUID is another than before.                   *)
EntryOf(id, kind, external, found, guid) ==
    LET previous == At(id.guidOf, found.uid)
    IN [key |-> <<kind, external>>, uid |-> found.uid,
        outcome |-> CASE found.by = "nothing" -> "new"
                      [] found.by = "external_uid" -> "matched"
                      [] OTHER -> "rekeyed",
        previous |-> IF found.by \in {"guid", "business_key"}
                     THEN At(id.externalOf, found.uid) ELSE None,
        guidChanged |-> /\ found.by # "nothing"
                        /\ None \notin {guid, previous}
                        /\ guid # previous]

Resolve(id, kind, external, given, businessKey) ==
    LET guid == Usable(id, kind, given)
        found == Match(id, kind, external, guid, businessKey)
    IN [identity |-> Recorded(id, kind, external, found.uid, guid, businessKey),
        entry |-> EntryOf(id, kind, external, found, guid)]

(* Entities of the map that the import did not carry.                       *)
MissingSince(id, seen) ==
    {[key |-> key, uid |-> id.byExternal[key],
      outcome |-> "missing", previous |-> None, guidChanged |-> FALSE] :
        key \in DOMAIN id.byExternal \ seen}

----------------------------------------------------------------------------
(* to_dict and from_dict: external_of is not written, it is the inverse of  *)
(* by_external; an entity with one GUID in its history and no current one   *)
(* is given that one.                                                       *)
History(id, uid) == {key[2] : key \in {k \in DOMAIN id.byGuid : id.byGuid[k] = uid}}

Reloaded(id) ==
    LET bound == {id.byExternal[key] : key \in DOMAIN id.byExternal}
        taught == {id.byGuid[key] : key \in DOMAIN id.byGuid}
        known == DOMAIN id.guidOf
        single == {uid \in taught \ known : \E guid \in History(id, uid) :
                                               History(id, uid) = {guid}}
    IN [id EXCEPT
          !.externalOf = [uid \in bound |->
              (CHOOSE key \in DOMAIN id.byExternal : id.byExternal[key] = uid)[2]],
          !.guidOf = [uid \in known \union single |->
              IF uid \in known THEN id.guidOf[uid]
              ELSE CHOOSE guid \in History(id, uid) : TRUE]]

=============================================================================
