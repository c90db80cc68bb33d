--------------------------- MODULE ReimportProofs ---------------------------
(***************************************************************************)
(* What TLAPS proves of the identities that imports give to rows, for any   *)
(* number of importers, any documents and any history of imports.           *)
(***************************************************************************)
EXTENDS Reimport, TLAPS

Bound(id) == {id.byExternal[key] : key \in DOMAIN id.byExternal}

(* A map binds the keys it knows to the identities it knows, one to one; a   *)
(* GUID that was quarantined is bound to nothing; and no identity can be      *)
(* minted again, because its key is still bound or has been released since.  *)
IdentityOK(id) ==
    /\ id = [byExternal |-> id.byExternal, byGuid |-> id.byGuid,
             byBusinessKey |-> id.byBusinessKey, retired |-> id.retired,
             externalOf |-> id.externalOf, guidOf |-> id.guidOf, ambiguous |-> id.ambiguous]
    /\ \A key \in DOMAIN id.byExternal : key = <<key[1], key[2]>>
    /\ OneToOne(id)
    /\ \A key \in DOMAIN id.byGuid :
          /\ id.byGuid[key] \in DOMAIN id.externalOf
          /\ id.byGuid[key][1] = key[1]
          /\ key \notin id.ambiguous
    /\ \A key \in DOMAIN id.retired : id.retired[key] \in Nat
    /\ \A uid \in DOMAIN id.externalOf :
          /\ uid = <<uid[1], uid[2], uid[3]>> /\ uid[3] \in Nat
          /\ \/ uid[3] < Generation(id, uid[1], uid[2])
             \/ /\ uid[3] = Generation(id, uid[1], uid[2])
                /\ <<uid[1], uid[2]>> \in DOMAIN id.byExternal

CarriedBy(b) == {e.uid : e \in {x \in b.entries : x.outcome # "missing"}}
MissingFrom(b) == {e.uid : e \in {x \in b.entries : x.outcome = "missing"}}

(* The committed baselines: each map forgets nothing of those before it, and  *)
(* each report is true of them.                                              *)
HistoryOK(bs) ==
    /\ bs \in Seq({bs[n] : n \in DOMAIN bs})
    /\ \A n \in 1..Len(bs) :
          IdentityOK(bs[n].identity) /\ CarriedBy(bs[n]) \subseteq Bound(bs[n].identity)
    /\ \A n \in 1..Len(bs) : \A m \in 1..n :
          /\ Bound(bs[m].identity) \subseteq Bound(bs[n].identity)
          /\ DuplicateGuids(bs[m].doc) \subseteq bs[n].identity.ambiguous
    /\ \A n \in 1..Len(bs) : \A e \in bs[n].entries : \A m \in 1..(n - 1) :
          e.outcome = "new" => e.uid \notin CarriedBy(bs[m])
    /\ \A n \in 2..Len(bs) :
          /\ Bound(bs[n - 1].identity) \subseteq CarriedBy(bs[n]) \union MissingFrom(bs[n])
          /\ CarriedBy(bs[n]) \intersect MissingFrom(bs[n]) = {}

(* An import has in hand a map that forgets nothing of its base, and has     *)
(* reported each identity it gave under the key that now binds it.           *)
Seen(r) == {e.key : e \in r.entries}
ImportOK(bs, r) ==
    /\ r = [stage |-> "migrating", base |-> r.base, doc |-> r.doc, todo |-> r.todo,
            identity |-> r.identity, resolved |-> r.resolved, entries |-> r.entries]
    /\ r.base \in 0..Len(bs)
    /\ IdentityOK(r.identity)
    /\ DuplicateGuids(r.doc) \subseteq r.identity.ambiguous
    /\ r.base # 0 => /\ bs[r.base].identity.ambiguous \subseteq r.identity.ambiguous
                     /\ Bound(bs[r.base].identity) \subseteq Bound(r.identity)
    /\ \A e \in r.entries :
          /\ e.outcome # "missing"
          /\ e.uid \in DOMAIN r.identity.externalOf
          /\ <<e.uid[1], r.identity.externalOf[e.uid]>> \in Seen(r)
          /\ e.outcome = "new" /\ r.base # 0 => e.uid \notin Bound(bs[r.base].identity)
    /\ \A key \in Seen(r) \intersect DOMAIN r.identity.byExternal :
          \E e \in r.entries : e.uid = r.identity.byExternal[key]

IInv ==
    /\ HistoryOK(baselines)
    /\ importer = [i \in Importers |-> importer[i]]
    /\ \A i \in Importers : importer[i] = Idle \/ ImportOK(baselines, importer[i])
----------------------------------------------------------------------------
(* The identity map.                                                         *)

(* How often a key was released is a number.                                 *)
LEMMA GenerationType ==
    ASSUME NEW id, \A key \in DOMAIN id.retired : id.retired[key] \in Nat, NEW k, NEW x
    PROVE  Generation(id, k, x) \in Nat
BY DEF Generation

(* What binding the row's key to an entity changes of the map.               *)
LEMMA RecordedFacts ==
    ASSUME NEW id, IdentityOK(id), NEW kind, NEW external, NEW f, NEW guid
    PROVE  LET n == Recorded(id, kind, external, f, guid, None)
               K == <<kind, external>>
               rel == Released(id, kind, external, f)
           IN /\ n = [byExternal |-> n.byExternal, byGuid |-> n.byGuid,
                      byBusinessKey |-> n.byBusinessKey, retired |-> n.retired,
                      externalOf |-> n.externalOf, guidOf |-> n.guidOf, ambiguous |-> n.ambiguous]
              /\ n.ambiguous = id.ambiguous
              /\ DOMAIN n.byExternal = (DOMAIN id.byExternal \ rel) \union {K}
              /\ n.byExternal[K] = f
              /\ \A key \in DOMAIN id.byExternal \ rel :
                    key # K => n.byExternal[key] = id.byExternal[key]
              /\ DOMAIN n.externalOf = DOMAIN id.externalOf \union {f}
              /\ n.externalOf[f] = external
              /\ \A uid \in DOMAIN id.externalOf :
                    uid # f => n.externalOf[uid] = id.externalOf[uid]
              /\ \A key \in DOMAIN n.byGuid :
                    \/ guid # None /\ key = <<kind, guid>> /\ n.byGuid[key] = f
                    \/ key \in DOMAIN id.byGuid /\ n.byGuid[key] = id.byGuid[key]
              /\ \A key \in DOMAIN n.retired : n.retired[key] \in Nat
              /\ \A k, x : Generation(n, k, x) =
                             Generation(id, k, x) + (IF <<k, x>> \in rel THEN 1 ELSE 0)
<1> DEFINE n == Recorded(id, kind, external, f, guid, None)
           K == <<kind, external>>
           rel == Released(id, kind, external, f)
<1>1. id = [byExternal |-> id.byExternal, byGuid |-> id.byGuid,
            byBusinessKey |-> id.byBusinessKey, retired |-> id.retired,
            externalOf |-> id.externalOf, guidOf |-> id.guidOf, ambiguous |-> id.ambiguous]
      /\ \A key \in DOMAIN id.retired : id.retired[key] \in Nat
  BY DEF IdentityOK
<1> HIDE DEF K, rel
<1>2. /\ n.byExternal = Put(Without(id.byExternal, rel), K, f)
      /\ n.retired = [k \in DOMAIN id.retired \union rel |->
                          (IF k \in DOMAIN id.retired THEN id.retired[k] ELSE 0)
                          + (IF k \in rel THEN 1 ELSE 0)]
      /\ n.externalOf = Put(id.externalOf, f, external)
      /\ n.byGuid = IF guid = None THEN id.byGuid ELSE Put(id.byGuid, <<kind, guid>>, f)
      /\ n.ambiguous = id.ambiguous
      /\ n = [byExternal |-> n.byExternal, byGuid |-> n.byGuid,
              byBusinessKey |-> n.byBusinessKey, retired |-> n.retired,
              externalOf |-> n.externalOf, guidOf |-> n.guidOf, ambiguous |-> n.ambiguous]
  <2> DEFINE e == Put(Without(id.byExternal, rel), K, f)
             t == [k \in DOMAIN id.retired \union rel |->
                          (IF k \in DOMAIN id.retired THEN id.retired[k] ELSE 0)
                          + (IF k \in rel THEN 1 ELSE 0)]
             o == Put(id.externalOf, f, external)
             g == IF guid = None THEN id.byGuid ELSE Put(id.byGuid, <<kind, guid>>, f)
             h == IF guid = None THEN id.guidOf ELSE Put(id.guidOf, f, guid)
  <2>1. n = [id EXCEPT !.byExternal = e, !.retired = t, !.externalOf = o, !.byGuid = g,
                       !.guidOf = h, !.byBusinessKey = id.byBusinessKey]
    BY <1>1 DEF Recorded, K, rel
  <2> HIDE DEF n, e, t, o, g, h
  <2>2. n = [byExternal |-> e, byGuid |-> g, byBusinessKey |-> id.byBusinessKey, retired |-> t,
             externalOf |-> o, guidOf |-> h, ambiguous |-> id.ambiguous]
    BY <1>1, <2>1
  <2>3. /\ n.byExternal = e /\ n.byGuid = g /\ n.retired = t /\ n.externalOf = o
        /\ n.guidOf = h /\ n.ambiguous = id.ambiguous /\ n.byBusinessKey = id.byBusinessKey
    BY <2>2
  <2>4. n = [byExternal |-> n.byExternal, byGuid |-> n.byGuid,
              byBusinessKey |-> n.byBusinessKey, retired |-> n.retired,
              externalOf |-> n.externalOf, guidOf |-> n.guidOf, ambiguous |-> n.ambiguous]
    BY <2>2, <2>3
  <2> QED BY <2>3, <2>4 DEF e, t, o, g
<1> HIDE DEF n
<1>3. /\ DOMAIN n.byExternal = (DOMAIN id.byExternal \ rel) \union {K}
      /\ n.byExternal[K] = f
      /\ \A key \in DOMAIN id.byExternal \ rel : key # K => n.byExternal[key] = id.byExternal[key]
  BY <1>2 DEF Put, Without
<1>4. /\ DOMAIN n.externalOf = DOMAIN id.externalOf \union {f}
      /\ n.externalOf[f] = external
      /\ \A uid \in DOMAIN id.externalOf : uid # f => n.externalOf[uid] = id.externalOf[uid]
  BY <1>2 DEF Put
<1>5. \A key \in DOMAIN n.byGuid :
         \/ guid # None /\ key = <<kind, guid>> /\ n.byGuid[key] = f
         \/ key \in DOMAIN id.byGuid /\ n.byGuid[key] = id.byGuid[key]
  BY <1>2 DEF Put
<1>6. \A key \in DOMAIN n.retired : n.retired[key] \in Nat
  BY <1>1, <1>2
<1>7. ASSUME NEW k, NEW x
      PROVE  Generation(n, k, x) = Generation(id, k, x) + (IF <<k, x>> \in rel THEN 1 ELSE 0)
  BY <1>1, <1>2 DEF Generation
<1> QED BY <1>2, <1>3, <1>4, <1>5, <1>6, <1>7 DEF n, K, rel

(* Binding a key keeps the map sound, when the entity it is bound to is the   *)
(* one the key has, or another of its kind that is known, or a new one.       *)
LEMMA RecordedKeeps ==
    ASSUME NEW id, IdentityOK(id), NEW kind, NEW external, NEW f, NEW guid,
           guid # None => <<kind, guid>> \notin id.ambiguous,
           \/ <<kind, external>> \in DOMAIN id.byExternal /\ f = id.byExternal[<<kind, external>>]
           \/ /\ <<kind, external>> \notin DOMAIN id.byExternal
              /\ \/ f \in DOMAIN id.externalOf /\ f[1] = kind
                 \/ f = MintUid(kind, external, Generation(id, kind, external))
    PROVE  LET n == Recorded(id, kind, external, f, guid, None)
           IN IdentityOK(n) /\ Bound(id) \subseteq Bound(n) /\ f \in Bound(n)
<1> DEFINE n == Recorded(id, kind, external, f, guid, None)
           K == <<kind, external>>
           rel == Released(id, kind, external, f)
<1>1. /\ n = [byExternal |-> n.byExternal, byGuid |-> n.byGuid,
              byBusinessKey |-> n.byBusinessKey, retired |-> n.retired,
              externalOf |-> n.externalOf, guidOf |-> n.guidOf, ambiguous |-> n.ambiguous]
      /\ n.ambiguous = id.ambiguous
      /\ DOMAIN n.byExternal = (DOMAIN id.byExternal \ rel) \union {K}
      /\ n.byExternal[K] = f
      /\ \A key \in DOMAIN id.byExternal \ rel :
            key # K => n.byExternal[key] = id.byExternal[key]
      /\ DOMAIN n.externalOf = DOMAIN id.externalOf \union {f}
      /\ n.externalOf[f] = external
      /\ \A uid \in DOMAIN id.externalOf : uid # f => n.externalOf[uid] = id.externalOf[uid]
      /\ \A key \in DOMAIN n.byGuid :
            \/ guid # None /\ key = <<kind, guid>> /\ n.byGuid[key] = f
            \/ key \in DOMAIN id.byGuid /\ n.byGuid[key] = id.byGuid[key]
      /\ \A key \in DOMAIN n.retired : n.retired[key] \in Nat
      /\ \A k, x : Generation(n, k, x) =
                     Generation(id, k, x) + (IF <<k, x>> \in rel THEN 1 ELSE 0)
  BY RecordedFacts
<1>2. /\ \A key \in DOMAIN id.byExternal : key = <<key[1], key[2]>>
      /\ \A key \in DOMAIN id.byExternal :
            /\ id.byExternal[key] \in DOMAIN id.externalOf
            /\ id.byExternal[key][1] = key[1]
            /\ id.externalOf[id.byExternal[key]] = key[2]
      /\ \A uid \in DOMAIN id.externalOf :
            /\ <<uid[1], id.externalOf[uid]>> \in DOMAIN id.byExternal
            /\ id.byExternal[<<uid[1], id.externalOf[uid]>>] = uid
      /\ \A key \in DOMAIN id.byGuid :
            /\ id.byGuid[key] \in DOMAIN id.externalOf
            /\ id.byGuid[key][1] = key[1]
            /\ key \notin id.ambiguous
      /\ \A uid \in DOMAIN id.externalOf :
            /\ uid = <<uid[1], uid[2], uid[3]>> /\ uid[3] \in Nat
            /\ \/ uid[3] < Generation(id, uid[1], uid[2])
               \/ /\ uid[3] = Generation(id, uid[1], uid[2])
                  /\ <<uid[1], uid[2]>> \in DOMAIN id.byExternal
  BY DEF IdentityOK, OneToOne
<1>3. \A k, x : Generation(id, k, x) \in Nat
  BY GenerationType DEF IdentityOK
<1>4. /\ f \notin DOMAIN id.externalOf => rel = {}
      /\ f \in DOMAIN id.externalOf =>
            rel = IF id.externalOf[f] # external THEN {<<kind, id.externalOf[f]>>} ELSE {}
  BY DEF Released
<1>5. K \in DOMAIN id.byExternal => f = id.byExternal[K]
  OBVIOUS
<1>6. f[1] = kind /\ (f \in DOMAIN id.externalOf \/ f = <<kind, external, Generation(id, kind, external)>>)
  BY <1>2 DEF MintUid
<1>7. K[1] = kind /\ K[2] = external /\ K = <<K[1], K[2]>> /\ K \notin rel
  BY <1>4
<1> HIDE DEF n, rel
<1>8. \A key \in rel : f \in DOMAIN id.externalOf /\ key = <<f[1], id.externalOf[f]>>
                       /\ id.byExternal[key] = f
  BY <1>2, <1>4, <1>6
<1>9. \A key \in DOMAIN n.byExternal : key = <<key[1], key[2]>>
  BY <1>1, <1>2
<1>10. ASSUME NEW key \in DOMAIN n.byExternal
       PROVE  /\ n.byExternal[key] \in DOMAIN n.externalOf
              /\ n.byExternal[key][1] = key[1]
              /\ n.externalOf[n.byExternal[key]] = key[2]
  <2>1. CASE key = K
    BY <1>1, <1>6, <1>7, <2>1
  <2>2. CASE key # K
    <3> DEFINE u == id.byExternal[key]
    <3>1. key \in DOMAIN id.byExternal /\ key \notin rel /\ n.byExternal[key] = u
      BY <1>1, <2>2
    <3>2. u \in DOMAIN id.externalOf /\ u[1] = key[1] /\ id.externalOf[u] = key[2]
          /\ key = <<key[1], key[2]>>
      BY <1>2, <3>1
    <3>3. u # f
      <4> SUFFICES ASSUME u = f PROVE FALSE
        OBVIOUS
      <4>1. key = <<kind, id.externalOf[f]>> /\ f \in DOMAIN id.externalOf
        BY <1>6, <3>2
      <4> QED BY <1>4, <2>2, <3>1, <4>1
    <3> QED BY <1>1, <3>1, <3>2, <3>3
  <2> QED BY <2>1, <2>2
<1>11. ASSUME NEW uid \in DOMAIN n.externalOf
       PROVE  /\ <<uid[1], n.externalOf[uid]>> \in DOMAIN n.byExternal
              /\ n.byExternal[<<uid[1], n.externalOf[uid]>>] = uid
  <2>1. CASE uid = f
    BY <1>1, <1>6, <2>1
  <2>2. CASE uid # f
    <3> DEFINE key == <<uid[1], id.externalOf[uid]>>
    <3>1. uid \in DOMAIN id.externalOf /\ n.externalOf[uid] = id.externalOf[uid]
      BY <1>1, <2>2
    <3>2. key \in DOMAIN id.byExternal /\ id.byExternal[key] = uid
      BY <1>2, <3>1
    <3> HIDE DEF key
    <3>3. key # K /\ key \notin rel
      BY <1>5, <1>8, <2>2, <3>2
    <3> QED BY <1>1, <3>1, <3>2, <3>3 DEF key
  <2> QED BY <2>1, <2>2
<1>12. \A key \in DOMAIN n.byGuid :
          /\ n.byGuid[key] \in DOMAIN n.externalOf
          /\ n.byGuid[key][1] = key[1]
          /\ key \notin n.ambiguous
  BY <1>1, <1>2, <1>6
<1>13. ASSUME NEW uid \in DOMAIN n.externalOf
       PROVE  /\ uid = <<uid[1], uid[2], uid[3]>> /\ uid[3] \in Nat
              /\ \/ uid[3] < Generation(n, uid[1], uid[2])
                 \/ /\ uid[3] = Generation(n, uid[1], uid[2])
                    /\ <<uid[1], uid[2]>> \in DOMAIN n.byExternal
  <2>1. CASE uid \in DOMAIN id.externalOf
    <3> DEFINE key == <<uid[1], uid[2]>>
               g == Generation(id, uid[1], uid[2])
    <3>1. g \in Nat /\ Generation(n, uid[1], uid[2]) = g + (IF key \in rel THEN 1 ELSE 0)
      BY <1>1, <1>3
    <3>2. uid = <<uid[1], uid[2], uid[3]>> /\ uid[3] \in Nat
          /\ (uid[3] < g \/ (uid[3] = g /\ key \in DOMAIN id.byExternal))
      BY <1>2, <2>1
    <3>3. key \in DOMAIN id.byExternal /\ key \notin rel => key \in DOMAIN n.byExternal
      BY <1>1
    <3> HIDE DEF g, key
    <3> QED BY <3>1, <3>2, <3>3 DEF key
  <2>2. CASE uid \notin DOMAIN id.externalOf
    <3>1. uid = f /\ f = <<kind, external, Generation(id, kind, external)>> /\ rel = {}
      BY <1>1, <1>4, <1>6, <2>2
    <3>2. Generation(n, kind, external) = Generation(id, kind, external)
          /\ Generation(id, kind, external) \in Nat
      BY <1>1, <1>3, <3>1
    <3>3. uid[1] = kind /\ uid[2] = external /\ uid[3] = Generation(id, kind, external)
      BY <3>1
    <3> QED BY <1>1, <3>1, <3>2, <3>3
  <2> QED BY <2>1, <2>2
<1>14. IdentityOK(n)
  BY <1>1, <1>9, <1>10, <1>11, <1>12, <1>13 DEF IdentityOK, OneToOne
<1>15. f \in Bound(n)
  BY <1>1 DEF Bound
<1>16. ASSUME NEW key \in DOMAIN id.byExternal PROVE id.byExternal[key] \in Bound(n)
  <2>1. CASE key \in rel
    BY <1>8, <1>15, <2>1
  <2>2. CASE key = K
    BY <1>5, <1>15, <2>2
  <2>3. CASE key \notin rel /\ key # K
    BY <1>1, <2>3 DEF Bound
  <2> QED BY <2>1, <2>2, <2>3
<1>17. Bound(id) \subseteq Bound(n)
  BY <1>16 DEF Bound
<1> QED BY <1>14, <1>15, <1>17 DEF n

(* The entities a map knows by their last key are those its keys bind.       *)
LEMMA KnownIsBound ==
    ASSUME NEW id, IdentityOK(id)
    PROVE  DOMAIN id.externalOf = Bound(id)
<1>1. ASSUME NEW uid \in DOMAIN id.externalOf PROVE uid \in Bound(id)
  <2> DEFINE key == <<uid[1], id.externalOf[uid]>>
  <2>1. key \in DOMAIN id.byExternal /\ id.byExternal[key] = uid
    BY DEF IdentityOK, OneToOne
  <2> HIDE DEF key
  <2> QED BY <2>1 DEF Bound
<1>2. ASSUME NEW key \in DOMAIN id.byExternal PROVE id.byExternal[key] \in DOMAIN id.externalOf
  BY DEF IdentityOK, OneToOne
<1>3. Bound(id) \subseteq DOMAIN id.externalOf
  BY <1>2 DEF Bound
<1> QED BY <1>1, <1>3

(* Quarantine forgets GUIDs and nothing else.                                *)
LEMMA QuarantinedKeeps ==
    ASSUME NEW id, IdentityOK(id), NEW claimed
    PROVE  LET n == Quarantined(id, claimed)
           IN IdentityOK(n) /\ Bound(n) = Bound(id) /\ n.ambiguous = id.ambiguous \union claimed
<1> DEFINE n == Quarantined(id, claimed)
           g == Without(id.byGuid, claimed)
           guids == {claim[2] : claim \in claimed}
           o == Without(id.guidOf, {uid \in DOMAIN id.guidOf : id.guidOf[uid] \in guids})
           a == id.ambiguous \union claimed
<1>1. id = [byExternal |-> id.byExternal, byGuid |-> id.byGuid,
            byBusinessKey |-> id.byBusinessKey, retired |-> id.retired,
            externalOf |-> id.externalOf, guidOf |-> id.guidOf, ambiguous |-> id.ambiguous]
  BY DEF IdentityOK
<1>2. n = [id EXCEPT !.ambiguous = a, !.byGuid = g, !.guidOf = o]
  BY <1>1 DEF Quarantined
<1> HIDE DEF n, g, o, a
<1>3. n = [byExternal |-> id.byExternal, byGuid |-> g, byBusinessKey |-> id.byBusinessKey,
           retired |-> id.retired, externalOf |-> id.externalOf, guidOf |-> o, ambiguous |-> a]
  BY <1>1, <1>2
<1>4. /\ n.byExternal = id.byExternal /\ n.byGuid = g /\ n.byBusinessKey = id.byBusinessKey
      /\ n.retired = id.retired /\ n.externalOf = id.externalOf /\ n.guidOf = o /\ n.ambiguous = a
  BY <1>3
<1>5. n = [byExternal |-> n.byExternal, byGuid |-> n.byGuid, byBusinessKey |-> n.byBusinessKey,
           retired |-> n.retired, externalOf |-> n.externalOf, guidOf |-> n.guidOf,
           ambiguous |-> n.ambiguous]
  BY <1>3, <1>4
<1>6. \A key \in DOMAIN n.byGuid :
         key \in DOMAIN id.byGuid /\ n.byGuid[key] = id.byGuid[key] /\ key \notin claimed
  BY <1>4 DEF g, Without
<1>7. \A k, x : Generation(n, k, x) = Generation(id, k, x)
  BY <1>4 DEF Generation
<1>8. IdentityOK(n)
  BY <1>4, <1>5, <1>6, <1>7 DEF IdentityOK, OneToOne, a
<1>9. Bound(n) = Bound(id)
  BY <1>4 DEF Bound
<1> QED BY <1>4, <1>8, <1>9 DEF n, a

(* What is written of a map is enough to read it back: external_of is the    *)
(* inverse of by_external.                                                   *)
LEMMA ReloadedKeeps ==
    ASSUME NEW id, IdentityOK(id)
    PROVE  LET n == Reloaded(id)
           IN IdentityOK(n) /\ Bound(n) = Bound(id) /\ n.ambiguous = id.ambiguous
              /\ n.externalOf = [uid \in Bound(id) |-> id.externalOf[uid]]
<1> DEFINE n == Reloaded(id)
           e == [uid \in Bound(id) |->
                    (CHOOSE key \in DOMAIN id.byExternal : id.byExternal[key] = uid)[2]]
           taught == {id.byGuid[key] : key \in DOMAIN id.byGuid}
           known == DOMAIN id.guidOf
           single == {uid \in taught \ known : \E guid \in History(id, uid) :
                                                  History(id, uid) = {guid}}
           o == [uid \in known \union single |->
                    IF uid \in known THEN id.guidOf[uid] ELSE CHOOSE guid \in History(id, uid) : TRUE]
<1>1. id = [byExternal |-> id.byExternal, byGuid |-> id.byGuid,
            byBusinessKey |-> id.byBusinessKey, retired |-> id.retired,
            externalOf |-> id.externalOf, guidOf |-> id.guidOf, ambiguous |-> id.ambiguous]
      /\ \A key \in DOMAIN id.byExternal :
            /\ id.byExternal[key] \in DOMAIN id.externalOf
            /\ id.byExternal[key][1] = key[1]
            /\ id.externalOf[id.byExternal[key]] = key[2]
  BY DEF IdentityOK, OneToOne
<1>2. n = [id EXCEPT !.externalOf = e, !.guidOf = o]
  BY DEF Reloaded, Bound
<1> HIDE DEF n, o, e
<1>3. n = [byExternal |-> id.byExternal, byGuid |-> id.byGuid, byBusinessKey |-> id.byBusinessKey,
           retired |-> id.retired, externalOf |-> e, guidOf |-> o, ambiguous |-> id.ambiguous]
  BY <1>1, <1>2
<1>4. /\ n.byExternal = id.byExternal /\ n.byGuid = id.byGuid /\ n.byBusinessKey = id.byBusinessKey
      /\ n.retired = id.retired /\ n.externalOf = e /\ n.guidOf = o /\ n.ambiguous = id.ambiguous
  BY <1>3
<1>5. n = [byExternal |-> n.byExternal, byGuid |-> n.byGuid, byBusinessKey |-> n.byBusinessKey,
           retired |-> n.retired, externalOf |-> n.externalOf, guidOf |-> n.guidOf,
           ambiguous |-> n.ambiguous]
  BY <1>3, <1>4
<1>6. DOMAIN e = DOMAIN id.externalOf /\ \A uid \in DOMAIN e : e[uid] = id.externalOf[uid]
  <2>1. DOMAIN e = Bound(id)
    BY DEF e
  <2>2. ASSUME NEW uid \in Bound(id) PROVE e[uid] = id.externalOf[uid]
    <3> DEFINE k == CHOOSE key \in DOMAIN id.byExternal : id.byExternal[key] = uid
    <3>1. k \in DOMAIN id.byExternal /\ id.byExternal[k] = uid
      BY DEF Bound
    <3>2. e[uid] = k[2]
      BY DEF e
    <3> QED BY <1>1, <3>1, <3>2
  <2> QED BY <2>1, <2>2, KnownIsBound
<1>7. \A k, x : Generation(n, k, x) = Generation(id, k, x)
  BY <1>4 DEF Generation
<1>8. IdentityOK(n)
  <2>1. OneToOne(n)
    BY <1>4, <1>6 DEF IdentityOK, OneToOne
  <2> QED BY <1>4, <1>5, <1>6, <1>7, <2>1 DEF IdentityOK
<1>9. Bound(n) = Bound(id)
  BY <1>4 DEF Bound
<1>10. e = [uid \in Bound(id) |-> id.externalOf[uid]]
  BY <1>6, KnownIsBound DEF e
<1> QED BY <1>4, <1>8, <1>9, <1>10 DEF n

(* The map of a project that has no baseline is sound.                       *)
LEMMA NoIdentityOK == IdentityOK(NoIdentity) /\ NoIdentity.ambiguous = {}
BY DEF NoIdentity, EmptyMap, IdentityOK, OneToOne

(* What resolving a row does to the map, and what it reports of the row.     *)
LEMMA ResolveFacts ==
    ASSUME NEW id, IdentityOK(id), NEW kind, NEW external, NEW given
    PROVE  LET answer == Resolve(id, kind, external, given, None)
               n == answer.identity
               uid == answer.entry.uid
               K == <<kind, external>>
           IN /\ IdentityOK(n) /\ n.ambiguous = id.ambiguous
              /\ Bound(id) \subseteq Bound(n) /\ uid \in Bound(n)
              /\ answer.entry.key = K /\ answer.entry.outcome # "missing"
              /\ answer.entry.outcome = "new" => uid \notin Bound(id)
              /\ K \in DOMAIN n.byExternal /\ n.byExternal[K] = uid
              /\ \A key \in DOMAIN n.byExternal :
                    key # K => key \in DOMAIN id.byExternal /\ n.byExternal[key] = id.byExternal[key]
              /\ n.externalOf[uid] = external /\ uid[1] = kind
              /\ \A u \in DOMAIN id.externalOf :
                    u \in DOMAIN n.externalOf /\ (u # uid => n.externalOf[u] = id.externalOf[u])
<1> DEFINE guid == Usable(id, kind, given)
           K == <<kind, external>>
           found == Match(id, kind, external, guid, None)
           f == found.uid
           n == Recorded(id, kind, external, f, guid, None)
           entry == EntryOf(id, kind, external, found, guid)
           mint == MintUid(kind, external, Generation(id, kind, external))
<1>1. guid # None => <<kind, guid>> \notin id.ambiguous
  BY DEF Usable
<1>2. \/ K \in DOMAIN id.byExternal /\ f = id.byExternal[K] /\ found.by = "external_uid"
      \/ /\ K \notin DOMAIN id.byExternal
         /\ \/ <<kind, guid>> \in DOMAIN id.byGuid /\ f = id.byGuid[<<kind, guid>>]
               /\ found.by = "guid"
            \/ f = mint /\ found.by = "nothing"
  BY DEF Match
<1>3. (f \in DOMAIN id.externalOf /\ f[1] = kind) \/ f = mint
  BY <1>2 DEF IdentityOK, OneToOne
<1>4. entry.key = K /\ entry.uid = f
      /\ entry.outcome # "missing" /\ (entry.outcome = "new" => found.by = "nothing")
  <2>1. entry.key = K /\ entry.uid = f
    BY DEF EntryOf
  <2>2. entry.outcome = CASE found.by = "nothing" -> "new"
                          [] found.by = "external_uid" -> "matched"
                          [] OTHER -> "rekeyed"
    BY DEF EntryOf
  <2> HIDE DEF entry, found
  <2> QED BY <1>2, <2>1, <2>2
<1> HIDE DEF found, guid, entry, f
<1>5. IdentityOK(n) /\ Bound(id) \subseteq Bound(n) /\ f \in Bound(n)
  BY <1>1, <1>2, <1>3, RecordedKeeps
<1>6. /\ n.ambiguous = id.ambiguous
      /\ K \in DOMAIN n.byExternal /\ n.byExternal[K] = f
      /\ \A key \in DOMAIN n.byExternal :
            key # K => key \in DOMAIN id.byExternal /\ n.byExternal[key] = id.byExternal[key]
      /\ n.externalOf[f] = external
      /\ \A u \in DOMAIN id.externalOf :
            u \in DOMAIN n.externalOf /\ (u # f => n.externalOf[u] = id.externalOf[u])
  BY RecordedFacts
<1>7. f[1] = kind
  BY <1>3 DEF MintUid
<1>8. found.by = "nothing" => f \notin Bound(id)
  <2> SUFFICES ASSUME found.by = "nothing", f \in Bound(id) PROVE FALSE
    OBVIOUS
  <2>1. f = <<kind, external, Generation(id, kind, external)>> /\ K \notin DOMAIN id.byExternal
    BY <1>2 DEF MintUid
  <2>2. f \in DOMAIN id.externalOf
    BY KnownIsBound
  <2>3. Generation(id, kind, external) \in Nat
    BY GenerationType DEF IdentityOK
  <2>4. /\ f[1] = kind /\ f[2] = external /\ f[3] = Generation(id, kind, external)
    BY <2>1
  <2>5. f[3] < Generation(id, f[1], f[2]) \/ <<f[1], f[2]>> \in DOMAIN id.byExternal
    BY <2>2 DEF IdentityOK
  <2> QED BY <2>1, <2>3, <2>4, <2>5
<1>9. Resolve(id, kind, external, given, None) = [identity |-> n, entry |-> entry]
  BY DEF Resolve, found, guid, entry, f
<1> HIDE DEF n
<1> QED BY <1>4, <1>5, <1>6, <1>7, <1>8, <1>9

----------------------------------------------------------------------------
(* One import.                                                               *)

(* An import begins with what its base knows, less the GUIDs that its        *)
(* document claims twice.                                                    *)
LEMMA BeginOK ==
    ASSUME NEW bs, HistoryOK(bs), NEW doc, NEW todo
    PROVE  LET r == [stage |-> "migrating", base |-> Len(bs), doc |-> doc, todo |-> todo,
                     identity |-> Scanned(IF Len(bs) = 0 THEN NoIdentity
                                          ELSE Reloaded(bs[Len(bs)].identity), doc),
                     resolved |-> EmptyMap, entries |-> {}]
           IN ImportOK(bs, r)
<1> DEFINE from == IF Len(bs) = 0 THEN NoIdentity ELSE Reloaded(bs[Len(bs)].identity)
           id == Scanned(from, doc)
           r == [stage |-> "migrating", base |-> Len(bs), doc |-> doc, todo |-> todo,
                 identity |-> id, resolved |-> EmptyMap, entries |-> {}]
<1>1. Len(bs) \in Nat
  BY DEF HistoryOK
<1>2. Len(bs) # 0 => IdentityOK(bs[Len(bs)].identity)
  BY <1>1 DEF HistoryOK
<1>3. /\ IdentityOK(from)
      /\ Len(bs) # 0 => /\ Bound(from) = Bound(bs[Len(bs)].identity)
                        /\ from.ambiguous = bs[Len(bs)].identity.ambiguous
  BY <1>2, NoIdentityOK, ReloadedKeeps
<1> HIDE DEF from
<1>4. IdentityOK(id) /\ Bound(id) = Bound(from)
      /\ id.ambiguous = from.ambiguous \union DuplicateGuids(doc)
  BY <1>3, QuarantinedKeeps DEF Scanned
<1> HIDE DEF id
<1>5. /\ r.base = Len(bs) /\ r.identity = id /\ r.doc = doc /\ r.entries = {} /\ r.todo = todo
      /\ r.resolved = EmptyMap
      /\ r = [stage |-> "migrating", base |-> r.base, doc |-> r.doc, todo |-> r.todo,
            identity |-> r.identity, resolved |-> r.resolved, entries |-> r.entries]
  OBVIOUS
<1> HIDE DEF r
<1>6. ImportOK(bs, r)
  BY <1>1, <1>3, <1>4, <1>5 DEF ImportOK, Seen
<1> QED BY <1>6 DEF r, id, from

(* Resolving a row keeps what the import has in hand true.                   *)
LEMMA ResolvedOK ==
    ASSUME NEW bs, HistoryOK(bs), NEW r, ImportOK(bs, r), NEW kind, NEW external, NEW given,
           NEW todo, NEW resolved
    PROVE  LET answer == Resolve(r.identity, kind, external, given, None)
           IN ImportOK(bs, [stage |-> "migrating", base |-> r.base, doc |-> r.doc, todo |-> todo,
                            identity |-> answer.identity, resolved |-> resolved,
                            entries |-> r.entries \union {answer.entry}])
<1> DEFINE id == r.identity
           answer == Resolve(id, kind, external, given, None)
           n == answer.identity
           a == answer.entry
           K == <<kind, external>>
           s == [stage |-> "migrating", base |-> r.base, doc |-> r.doc, todo |-> todo,
                 identity |-> n, resolved |-> resolved, entries |-> r.entries \union {a}]
<1>1. IdentityOK(id)
  BY DEF ImportOK
<1>2. /\ IdentityOK(n) /\ n.ambiguous = id.ambiguous
      /\ Bound(id) \subseteq Bound(n) /\ a.uid \in Bound(n)
      /\ a.key = K /\ a.outcome # "missing"
      /\ a.outcome = "new" => a.uid \notin Bound(id)
      /\ K \in DOMAIN n.byExternal /\ n.byExternal[K] = a.uid
      /\ \A key \in DOMAIN n.byExternal :
            key # K => key \in DOMAIN id.byExternal /\ n.byExternal[key] = id.byExternal[key]
      /\ n.externalOf[a.uid] = external /\ a.uid[1] = kind
      /\ \A u \in DOMAIN id.externalOf :
            u \in DOMAIN n.externalOf /\ (u # a.uid => n.externalOf[u] = id.externalOf[u])
  BY <1>1, ResolveFacts
<1>3. a.uid \in DOMAIN n.externalOf
  BY <1>2, KnownIsBound
<1> HIDE DEF n, a, answer
<1>4. /\ s.base = r.base /\ s.identity = n /\ s.doc = r.doc /\ s.entries = r.entries \union {a}
      /\ s.todo = todo /\ s.resolved = resolved
      /\ s = [stage |-> "migrating", base |-> s.base, doc |-> s.doc, todo |-> s.todo,
            identity |-> s.identity, resolved |-> s.resolved, entries |-> s.entries]
  OBVIOUS
<1> HIDE DEF s
<1>5. Seen(s) = Seen(r) \union {K}
  BY <1>2, <1>4 DEF Seen
<1>6. /\ s.base \in 0..Len(bs)
      /\ DuplicateGuids(s.doc) \subseteq n.ambiguous
      /\ s.base # 0 => /\ bs[s.base].identity.ambiguous \subseteq n.ambiguous
                       /\ Bound(bs[s.base].identity) \subseteq Bound(id)
      /\ \A e \in r.entries :
          /\ e.outcome # "missing"
          /\ e.uid \in DOMAIN id.externalOf
          /\ <<e.uid[1], id.externalOf[e.uid]>> \in Seen(r)
          /\ e.outcome = "new" /\ s.base # 0 => e.uid \notin Bound(bs[s.base].identity)
      /\ \A key \in Seen(r) \intersect DOMAIN id.byExternal :
          \E e \in r.entries : e.uid = id.byExternal[key]
  BY <1>2, <1>4 DEF ImportOK
<1> HIDE DEF id
<1>7. ASSUME NEW e \in s.entries
      PROVE  /\ e.outcome # "missing"
             /\ e.uid \in DOMAIN n.externalOf
             /\ <<e.uid[1], n.externalOf[e.uid]>> \in Seen(s)
             /\ e.outcome = "new" /\ s.base # 0 => e.uid \notin Bound(bs[s.base].identity)
  <2>1. CASE e = a
    BY <1>2, <1>3, <1>5, <1>6, <2>1
  <2>2. CASE e \in r.entries /\ e.uid = a.uid
    BY <1>2, <1>3, <1>5, <1>6, <2>2
  <2>3. CASE e \in r.entries /\ e.uid # a.uid
    BY <1>2, <1>5, <1>6, <2>3
  <2> QED BY <1>4, <2>1, <2>2, <2>3
<1>8. ASSUME NEW key \in Seen(s) \intersect DOMAIN n.byExternal
      PROVE  \E e \in s.entries : e.uid = n.byExternal[key]
  <2>1. CASE key = K
    BY <1>2, <1>4, <2>1
  <2>2. CASE key # K
    BY <1>2, <1>4, <1>5, <1>6, <2>2
  <2> QED BY <2>1, <2>2
<1>9. ImportOK(bs, s)
  BY <1>2, <1>4, <1>6, <1>7, <1>8 DEF ImportOK
<1> QED BY <1>9 DEF s, n, a, answer, id

(* The baseline of an import whose base is still the head is true of every   *)
(* baseline before it.                                                       *)
LEMMA CommittedOK ==
    ASSUME NEW bs, HistoryOK(bs), NEW r, ImportOK(bs, r), r.base = Len(bs), NEW schedule
    PROVE  HistoryOK(Append(bs, [doc |-> r.doc, schedule |-> schedule, identity |-> r.identity,
                                 entries |-> Report(r)]))
<1> DEFINE b == [doc |-> r.doc, schedule |-> schedule, identity |-> r.identity,
                 entries |-> Report(r)]
           id == r.identity
           cs == Append(bs, b)
           L == Len(bs)
<1>1. b.doc = r.doc /\ b.identity = id /\ b.entries = Report(r)
  OBVIOUS
<1> HIDE DEF b
<1>2. /\ L \in Nat /\ Len(cs) = L + 1 /\ DOMAIN cs = 1..(L + 1)
      /\ \A k \in 1..L : cs[k] = bs[k]
      /\ cs[L + 1] = b
      /\ cs \in Seq({cs[k] : k \in DOMAIN cs})
  <2> DEFINE S == {bs[k] : k \in DOMAIN bs} \union {b}
             T == {cs[k] : k \in DOMAIN cs}
  <2>1. bs \in Seq(S) /\ b \in S
    BY DEF HistoryOK
  <2> HIDE DEF S
  <2>2. L \in Nat /\ cs \in Seq(S) /\ Len(cs) = L + 1 /\ DOMAIN cs = 1..(L + 1)
        /\ cs[L + 1] = b /\ \A k \in 1..L : cs[k] = bs[k]
    BY <2>1
  <2> HIDE DEF cs, L
  <2>3. cs = [k \in 1..(L + 1) |-> cs[k]] /\ \A k \in 1..(L + 1) : cs[k] \in T
    BY <2>2
  <2> HIDE DEF T
  <2>4. cs \in [1..(L + 1) -> T]
    BY <2>3
  <2>5. cs \in Seq(T)
    BY <2>2, <2>4
  <2> QED BY <2>2, <2>5 DEF T
<1> HIDE DEF cs
<1>3. /\ IdentityOK(id)
      /\ DuplicateGuids(r.doc) \subseteq id.ambiguous
      /\ L # 0 => /\ bs[L].identity.ambiguous \subseteq id.ambiguous
                  /\ Bound(bs[L].identity) \subseteq Bound(id)
      /\ \A e \in r.entries :
          /\ e.outcome # "missing"
          /\ e.uid \in DOMAIN id.externalOf
          /\ <<e.uid[1], id.externalOf[e.uid]>> \in Seen(r)
          /\ e.outcome = "new" /\ L # 0 => e.uid \notin Bound(bs[L].identity)
      /\ \A key \in Seen(r) \intersect DOMAIN id.byExternal :
          \E e \in r.entries : e.uid = id.byExternal[key]
  BY DEF ImportOK
<1>4. /\ \A k \in 1..L : IdentityOK(bs[k].identity) /\ CarriedBy(bs[k]) \subseteq Bound(bs[k].identity)
      /\ \A k \in 1..L : \A m \in 1..k :
            /\ Bound(bs[m].identity) \subseteq Bound(bs[k].identity)
            /\ DuplicateGuids(bs[m].doc) \subseteq bs[k].identity.ambiguous
      /\ \A k \in 1..L : \A e \in bs[k].entries : \A m \in 1..(k - 1) :
            e.outcome = "new" => e.uid \notin CarriedBy(bs[m])
      /\ \A k \in 2..L :
            /\ Bound(bs[k - 1].identity) \subseteq CarriedBy(bs[k]) \union MissingFrom(bs[k])
            /\ CarriedBy(bs[k]) \intersect MissingFrom(bs[k]) = {}
  BY DEF HistoryOK
<1> HIDE DEF L, id
<1>5. b.entries = r.entries \union MissingSince(id, Seen(r))
  BY <1>1 DEF Report, Seen, id
<1> DEFINE M == MissingSince(id, Seen(r))
           row(key) == [key |-> key, uid |-> id.byExternal[key],
                        outcome |-> "missing", previous |-> None, guidChanged |-> FALSE]
           D == DOMAIN id.byExternal \ Seen(r)
<1>5a. M = {row(key) : key \in D}
  BY DEF MissingSince
<1>5b. \A key \in D : row(key).uid = id.byExternal[key] /\ row(key).outcome = "missing"
  OBVIOUS
<1> HIDE DEF M, row
<1> HIDE DEF D
<1>5c. /\ b.entries = r.entries \union M
       /\ \A x \in r.entries : x.outcome # "missing"
       /\ \A x \in M : x.outcome = "missing"
  BY <1>3, <1>5, <1>5a, <1>5b DEF M
<1>6. CarriedBy(b) = {e.uid : e \in r.entries}
  <2>1. {x \in b.entries : x.outcome # "missing"} = r.entries
    BY <1>5c
  <2> QED BY <2>1 DEF CarriedBy
<1>7. MissingFrom(b) = {id.byExternal[key] : key \in D}
  <2>1. {x \in b.entries : x.outcome = "missing"} = {row(key) : key \in D}
    BY <1>5a, <1>5c
  <2>2. MissingFrom(b) = {e.uid : e \in {row(key) : key \in D}}
    BY <2>1 DEF MissingFrom
  <2> QED BY <1>5b, <2>2
<1> USE DEF D
<1>8. CarriedBy(b) \subseteq Bound(id)
  BY <1>3, <1>6, KnownIsBound
<1>9. Bound(id) \subseteq CarriedBy(b) \union MissingFrom(b)
  BY <1>3, <1>6, <1>7 DEF Bound
<1>10. CarriedBy(b) \intersect MissingFrom(b) = {}
  <2> SUFFICES ASSUME NEW e \in r.entries, NEW key \in DOMAIN id.byExternal \ Seen(r),
                      e.uid = id.byExternal[key]
               PROVE  FALSE
    BY <1>6, <1>7
  <2>1. key = <<e.uid[1], id.externalOf[e.uid]>>
    BY <1>3 DEF IdentityOK, OneToOne
  <2> QED BY <1>3, <2>1
<1>11. ASSUME NEW m \in 1..L
       PROVE  /\ Bound(bs[m].identity) \subseteq Bound(id)
              /\ DuplicateGuids(bs[m].doc) \subseteq id.ambiguous
              /\ \A e \in b.entries : e.outcome = "new" => e.uid \notin CarriedBy(bs[m])
  <2>1. L # 0 /\ L \in 1..L
    BY <1>2
  <2>2. /\ Bound(bs[m].identity) \subseteq Bound(bs[L].identity)
        /\ DuplicateGuids(bs[m].doc) \subseteq bs[L].identity.ambiguous
        /\ CarriedBy(bs[m]) \subseteq Bound(bs[m].identity)
    BY <1>4, <2>1
  <2>3. ASSUME NEW e \in b.entries, e.outcome = "new" PROVE e.uid \notin CarriedBy(bs[m])
    <3>1. e \in r.entries
      BY <1>5, <2>3 DEF MissingSince
    <3> QED BY <1>3, <2>1, <2>2, <2>3, <3>1
  <2> QED BY <1>3, <2>1, <2>2, <2>3
<1>12. \A k \in 1..(L + 1) : k \in 1..L \/ k = L + 1
  BY <1>2
<1>13. ASSUME NEW k \in 1..(L + 1)
       PROVE  /\ IdentityOK(cs[k].identity) /\ CarriedBy(cs[k]) \subseteq Bound(cs[k].identity)
              /\ \A m \in 1..k :
                    /\ Bound(cs[m].identity) \subseteq Bound(cs[k].identity)
                    /\ DuplicateGuids(cs[m].doc) \subseteq cs[k].identity.ambiguous
              /\ \A e \in cs[k].entries : \A m \in 1..(k - 1) :
                    e.outcome = "new" => e.uid \notin CarriedBy(cs[m])
              /\ k # 1 =>
                    /\ Bound(cs[k - 1].identity) \subseteq CarriedBy(cs[k]) \union MissingFrom(cs[k])
                    /\ CarriedBy(cs[k]) \intersect MissingFrom(cs[k]) = {}
  <2>1. CASE k \in 1..L
    <3>1. cs[k] = bs[k] /\ (\A m \in 1..k : m \in 1..L /\ cs[m] = bs[m])
          /\ (\A m \in 1..(k - 1) : m \in 1..L /\ cs[m] = bs[m])
          /\ (k # 1 => k \in 2..L /\ cs[k - 1] = bs[k - 1])
      BY <1>2, <2>1
    <3> QED BY <1>4, <2>1, <3>1
  <2>2. CASE k = L + 1
    <3>1. cs[k] = b /\ (\A m \in 1..(k - 1) : m \in 1..L /\ cs[m] = bs[m])
          /\ (\A m \in 1..k : m = k \/ (m \in 1..L /\ cs[m] = bs[m]))
          /\ (k # 1 => k - 1 \in 1..L)
      BY <1>2, <2>2
    <3> QED BY <1>1, <1>3, <1>8, <1>9, <1>10, <1>11, <3>1
  <2> QED BY <1>12, <2>1, <2>2
<1>14. \A k \in 2..(L + 1) : k \in 1..(L + 1) /\ k # 1
  BY <1>2
<1>15. HistoryOK(cs)
  BY <1>2, <1>13, <1>14 DEF HistoryOK
<1> QED BY <1>15 DEF cs, b

(* A baseline more takes nothing from an import that has an older base.      *)
LEMMA OthersOK ==
    ASSUME NEW bs, HistoryOK(bs), NEW b, NEW r, ImportOK(bs, r)
    PROVE  ImportOK(Append(bs, b), r)
<1> DEFINE S == {bs[k] : k \in DOMAIN bs} \union {b}
           cs == Append(bs, b)
<1>1. bs \in Seq(S) /\ b \in S
  BY DEF HistoryOK
<1> HIDE DEF S
<1>2. Len(bs) \in Nat /\ Len(cs) = Len(bs) + 1 /\ \A k \in 1..Len(bs) : cs[k] = bs[k]
  BY <1>1
<1> HIDE DEF cs
<1>3. r.base \in 0..Len(cs) /\ (r.base # 0 => cs[r.base] = bs[r.base])
  BY <1>2 DEF ImportOK
<1>4. ImportOK(cs, r)
  BY <1>3 DEF ImportOK
<1> QED BY <1>4 DEF cs

----------------------------------------------------------------------------
(* Every import.                                                             *)

(* A project begins with no baseline and no import.                          *)
LEMMA InitIInv == ASSUME Init PROVE IInv
<1>1. baselines = <<>> /\ Len(baselines) = 0 /\ DOMAIN baselines = {}
  BY DEF Init
<1>2. HistoryOK(baselines)
  BY <1>1 DEF HistoryOK
<1>3. importer = [i \in Importers |-> importer[i]] /\ \A i \in Importers : importer[i] = Idle
  BY DEF Init
<1> QED BY <1>2, <1>3 DEF IInv

(* A step of an import that commits nothing, and leaves it idle or sound.     *)
LEMMA OneImport ==
    ASSUME IInv, NEW i \in Importers, NEW r, Becomes(i, r), UNCHANGED baselines,
           r = Idle \/ ImportOK(baselines, r)
    PROVE  IInv'
<1>1. importer' = [importer EXCEPT ![i] = r]
  BY DEF Becomes
<1>2. importer' = [k \in Importers |-> importer'[k]]
  BY <1>1 DEF IInv
<1>3. ASSUME NEW k \in Importers
      PROVE  importer'[k] = Idle \/ ImportOK(baselines, importer'[k])
  BY <1>1 DEF IInv
<1> QED BY <1>2, <1>3 DEF IInv, Idle

(* Resolving the next row is resolving one row of the map in hand.            *)
LEMMA ItemStep ==
    ASSUME IInv, NEW i \in Importers, Migrating(i), NEW item, ResolveItem(i, item),
           UNCHANGED baselines
    PROVE  IInv'
<1> DEFINE r == importer[i]
           key == KeyOf(item, r.resolved)
           guid == GuidOf(item)
           answer == Resolve(r.identity, item.kind, key, guid, None)
           todo == Tail(r.todo)
           resolved == Put(r.resolved, LocalName(item, key), answer.entry.uid)
           s == [stage |-> "migrating", base |-> r.base, doc |-> r.doc, todo |-> todo,
                 identity |-> answer.identity, resolved |-> resolved,
                 entries |-> r.entries \union {answer.entry}]
<1>1. ImportOK(baselines, r) /\ HistoryOK(baselines)
  BY DEF IInv, Migrating, Idle
<1>2. Becomes(i, [r EXCEPT !.todo = todo, !.identity = answer.identity,
                           !.entries = r.entries \union {answer.entry}, !.resolved = resolved])
  <2>1. r = [stage |-> "migrating", base |-> r.base, doc |-> r.doc, todo |-> r.todo,
             identity |-> r.identity, resolved |-> r.resolved, entries |-> r.entries]
    BY <1>1 DEF ImportOK
  <2> QED BY <2>1 DEF ResolveItem
<1> HIDE DEF answer, key, guid, todo, resolved
<1> DEFINE u == [r EXCEPT !.todo = todo, !.identity = answer.identity,
                         !.entries = r.entries \union {answer.entry}, !.resolved = resolved]
<1>3. u = s
  <2> DEFINE n == answer.identity
             entries == r.entries \union {answer.entry}
  <2>1. u = [r EXCEPT !.todo = todo, !.identity = n, !.entries = entries, !.resolved = resolved]
    OBVIOUS
  <2> DEFINE base == r.base
             doc == r.doc
             t == r.todo
             d == r.identity
             m == r.resolved
             e == r.entries
  <2>2. r = [stage |-> "migrating", base |-> base, doc |-> doc, todo |-> t,
             identity |-> d, resolved |-> m, entries |-> e]
    BY <1>1 DEF ImportOK
  <2> HIDE DEF base, doc, t, d, m, e, r, n, entries, u
  <2>3. u = [stage |-> "migrating", base |-> base, doc |-> doc, todo |-> todo,
             identity |-> n, resolved |-> resolved, entries |-> entries]
    BY <2>1, <2>2
  <2> QED BY <2>3 DEF base, doc, n, entries
<1>4. ImportOK(baselines, s)
  BY <1>1, ResolvedOK DEF answer
<1> HIDE DEF s
<1> QED BY <1>2, <1>3, <1>4, OneImport

(* A committed baseline.                                                     *)
LEMMA CommitStep ==
    ASSUME IInv, NEW i \in Importers, Commit(i)
    PROVE  IInv'
<1> DEFINE r == importer[i]
           schedule == Schedule(r.doc, r.resolved)
           b == [doc |-> r.doc, schedule |-> schedule, identity |-> r.identity,
                 entries |-> Report(r)]
           cs == Append(baselines, b)
<1>1. ImportOK(baselines, r) /\ HistoryOK(baselines)
  BY DEF IInv, Commit, AtEnd, Migrating, Idle
<1>2. r.base = Len(baselines)
  BY DEF Commit, HeadMoved, Latest
<1>3. baselines' = cs /\ importer' = [importer EXCEPT ![i] = Idle]
  BY DEF Commit, Becomes
<1> HIDE DEF schedule
<1>4. HistoryOK(cs)
  BY <1>1, <1>2, CommittedOK
<1> HIDE DEF b
<1>5. \A k \in Importers : importer[k] # Idle => ImportOK(cs, importer[k])
  BY <1>1, OthersOK DEF IInv
<1> HIDE DEF cs
<1>6. importer' = [k \in Importers |-> importer'[k]]
  BY <1>3 DEF IInv
<1>7. ASSUME NEW k \in Importers
      PROVE  importer'[k] = Idle \/ ImportOK(cs, importer'[k])
  BY <1>3, <1>5 DEF IInv
<1> QED BY <1>3, <1>4, <1>6, <1>7 DEF IInv, Idle

(* The invariant is inductive.                                               *)
LEMMA NextIInv == ASSUME IInv, [Next]_vars PROVE IInv'
<1>1. CASE UNCHANGED vars
  BY <1>1 DEF IInv, vars, Idle
<1>2. ASSUME NEW i \in Importers, NEW doc \in Documents, Begin(i, doc) PROVE IInv'
  <2> DEFINE todo == Items(doc)
             r == [stage |-> "migrating", base |-> Len(baselines), doc |-> doc, todo |-> todo,
                   identity |-> Scanned(IF Len(baselines) = 0 THEN NoIdentity
                                        ELSE Reloaded(baselines[Len(baselines)].identity), doc),
                   resolved |-> EmptyMap, entries |-> {}]
  <2>1. Becomes(i, r) /\ UNCHANGED baselines
    BY <1>2 DEF Begin, Latest
  <2> HIDE DEF todo
  <2>2. ImportOK(baselines, r)
    BY BeginOK DEF IInv
  <2> HIDE DEF r
  <2> QED BY <2>1, <2>2, OneImport
<1>3. ASSUME NEW i \in Importers, MigrateRow(i) PROVE IInv'
  <2> DEFINE item == Item(i)
  <2>1. Migrating(i) /\ ResolveItem(i, item) /\ UNCHANGED baselines
    BY <1>3 DEF MigrateRow
  <2> HIDE DEF item
  <2> QED BY <2>1, ItemStep
<1>4. ASSUME NEW i \in Importers, MigrateRelationship(i) PROVE IInv'
  <2> DEFINE item == Item(i)
  <2>1. Migrating(i) /\ ResolveItem(i, item) /\ UNCHANGED baselines
    BY <1>4 DEF MigrateRelationship
  <2> HIDE DEF item
  <2> QED BY <2>1, ItemStep
<1>5. ASSUME NEW i \in Importers, SkipDangling(i) PROVE IInv'
  <2> DEFINE r == importer[i]
             s == [r EXCEPT !.todo = Tail(@)]
  <2>1. ImportOK(baselines, r) /\ Becomes(i, s) /\ UNCHANGED baselines
    BY <1>5 DEF IInv, SkipDangling, Migrating, Idle
  <2> DEFINE todo == Tail(r.todo)
  <2>2. /\ s.stage = "migrating" /\ s.base = r.base /\ s.doc = r.doc /\ s.identity = r.identity
        /\ s.entries = r.entries
        /\ s = [stage |-> "migrating", base |-> s.base, doc |-> s.doc, todo |-> s.todo,
                identity |-> s.identity, resolved |-> s.resolved, entries |-> s.entries]
    <3>1. r = [stage |-> "migrating", base |-> r.base, doc |-> r.doc, todo |-> r.todo,
             identity |-> r.identity, resolved |-> r.resolved, entries |-> r.entries]
      BY <2>1 DEF ImportOK
    <3>2. s = [r EXCEPT !.todo = todo]
      BY <3>1
    <3> HIDE DEF todo, s
    <3> QED BY <3>1, <3>2
  <2> HIDE DEF s
  <2>3. Seen(s) = Seen(r)
    BY <2>2 DEF Seen
  <2>4. ImportOK(baselines, s)
    BY <2>1, <2>2, <2>3 DEF ImportOK
  <2> QED BY <2>1, <2>4, OneImport
<1>6. ASSUME NEW i \in Importers, Refuse(i) \/ Stale(i) PROVE IInv'
  <2>1. Becomes(i, Idle) /\ UNCHANGED baselines
    BY <1>6 DEF Refuse, Stale
  <2> QED BY <2>1, OneImport
<1>7. ASSUME NEW i \in Importers, Commit(i) PROVE IInv'
  BY <1>7, CommitStep
<1> QED BY <1>1, <1>2, <1>3, <1>4, <1>5, <1>6, <1>7 DEF Next

(* In every state each map is sound, each baseline's map forgets nothing of  *)
(* the one before it, and each report is true (migrate and import_snapshot). *)
THEOREM ReimportInvariance == Spec => []IInv
<1>1. Init => IInv
  BY InitIInv
<1>2. IInv /\ [Next]_vars => IInv'
  BY NextIInv
<1> QED BY <1>1, <1>2, PTL DEF Spec

(* The report of an import is true of every import before it: what it calls   *)
(* new no earlier baseline carried, and it accounts once for all that was     *)
(* known, whatever was refused or overtaken in between (identity.py: resolve, *)
(* missing_since).                                                           *)
THEOREM ReportsAreTrue == Spec => []ReportIsTrue
<1>1. ASSUME IInv PROVE ReportIsTrue
  <2>1. \A n \in 1..Latest : Carried(n) = CarriedBy(baselines[n]) /\ Missing(n) = MissingFrom(baselines[n])
                             /\ Known(n) = Bound(baselines[n].identity)
    BY DEF Carried, CarriedBy, Missing, MissingFrom, Known, Bound
  <2>2. Latest \in Nat
    BY <1>1 DEF IInv, HistoryOK, Latest
  <2>3. NewIsNew
    <3> SUFFICES ASSUME NEW n \in 1..Latest, NEW e \in baselines[n].entries, e.outcome = "new",
                        NEW m \in 1..(n - 1)
                 PROVE  e.uid \notin Carried(m)
      BY DEF NewIsNew
    <3>1. m \in 1..Latest
      BY <2>2
    <3> QED BY <1>1, <2>1, <3>1 DEF IInv, HistoryOK, Latest
  <2>4. AccountedOnce
    <3> SUFFICES ASSUME NEW n \in 2..Latest
                 PROVE  /\ Known(n - 1) \subseteq Carried(n) \union Missing(n)
                        /\ Carried(n) \intersect Missing(n) = {}
      BY DEF AccountedOnce
    <3>1. n \in 1..Latest /\ n - 1 \in 1..Latest
      BY <2>2
    <3> QED BY <1>1, <2>1, <3>1 DEF IInv, HistoryOK, Latest
  <2> QED BY <2>3, <2>4 DEF ReportIsTrue
<1> QED BY <1>1, ReimportInvariance, PTL

(* A GUID that two rows of one document claimed says nothing of a row again, *)
(* in that import or a later one (identity.py: quarantine_guids).            *)
THEOREM QuarantineIsForGood == Spec => []QuarantineLasts
<1>1. ASSUME IInv PROVE QuarantineLasts
  <2> SUFFICES ASSUME NEW m \in 1..Latest, NEW n \in m..Latest
               PROVE  DuplicateGuids(baselines[m].doc)
                        \intersect DOMAIN baselines[n].identity.byGuid = {}
    BY DEF QuarantineLasts
  <2>1. n \in 1..Latest /\ m \in 1..n
    BY <1>1 DEF IInv, HistoryOK, Latest
  <2>2. /\ DuplicateGuids(baselines[m].doc) \subseteq baselines[n].identity.ambiguous
        /\ IdentityOK(baselines[n].identity)
    BY <1>1, <2>1 DEF IInv, HistoryOK, Latest
  <2> QED BY <2>2 DEF IdentityOK
<1> QED BY <1>1, ReimportInvariance, PTL

(* The maps of the baselines and of the imports in flight bind keys and       *)
(* identities one to one, so what is written of them reads back as it was     *)
(* (identity.py: to_dict, from_dict).                                        *)
THEOREM MapsStayOneToOne == Spec => []MapsAreOneToOne
<1>1. ASSUME IInv PROVE MapsAreOneToOne
  <2>1. \A n \in 1..Latest : OneToOne(baselines[n].identity)
    BY <1>1 DEF IInv, HistoryOK, IdentityOK, Latest
  <2>2. ASSUME NEW i \in Importers, Migrating(i) PROVE OneToOne(importer[i].identity)
    <3>1. ImportOK(baselines, importer[i])
      BY <1>1, <2>2 DEF IInv, Migrating, Idle
    <3> QED BY <3>1 DEF ImportOK, IdentityOK
  <2> QED BY <2>1, <2>2 DEF MapsAreOneToOne
<1> QED BY <1>1, ReimportInvariance, PTL
=============================================================================
