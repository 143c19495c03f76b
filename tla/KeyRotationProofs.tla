------------------------- MODULE KeyRotationProofs --------------------------
(***************************************************************************)
(* Proofs about module KeyRotation.  Both properties need to know, beyond  *)
(* what a process has read itself, what the others have read: a producer   *)
(* signs with a key every running consumer has read, and seals with a key  *)
(* every running replica has read, because the operator configures a key   *)
(* for use only when everyone has it.                                      *)
(***************************************************************************)
EXTENDS KeyRotation, TLAPS

\* The timestamps of a row: it was signed on a clock that is at most Drift
\* ahead, and does not outlive the age a consumer allows.
RowTimes ==
    \A m \in Messages : Posted(m) =>
        /\ rows[m].occurred <= now + Drift
        /\ rows[m].occurred < rows[m].expires
        /\ rows[m].expires <= rows[m].occurred + EventMaxAge

\* Everyone who runs, and everyone who starts now, trusts k.
Known(k) == k \in files.trusted /\ \A c \in Consumers \cap up : k \in trusted[c]

KeysKnown ==
    /\ Known(files.signing)
    /\ \A p \in Producers \cap up : Known(signing[p])
    /\ \A m \in Messages : Posted(m) => RunOut(m) \/ Known(rows[m].key)

\* Every replica that runs, or starts now, can decrypt with d.
Held(d) == d \in files.ring.keys /\ \A p \in Producers \cap up : d \in ring[p].keys

RingsKnown ==
    /\ Held(files.ring.active)
    /\ \A p \in Producers \cap up : Held(ring[p].active)
    /\ \A m \in Messages : Posted(m) => Held(rows[m].sealed)

\* The inductive invariant.
Inv == TypeOK /\ RowTimes /\ KeysKnown /\ RingsKnown

-----------------------------------------------------------------------------
(* Lemmas                                                                  *)

\* A message without a row has no status of a row.
LEMMA RowOrNone ==
    ASSUME TypeOK, NEW m \in Messages
    PROVE  /\ Posted(m) <=> rows[m] \in Row
           /\ rows[m].status # "NONE" => Posted(m)
<1>1. rows[m] \in Row \cup {NoRow}
  BY DEF TypeOK
<1>2. NoRow.status = "NONE"
  BY DEF NoRow
<1>3. \A r \in Row : r.status # "NONE"
  BY DEF Row
<1> QED
  BY <1>1, <1>2, <1>3, Zenon DEF Posted

\* What Sign makes is a row.
LEMMA SignedIsRow ==
    ASSUME TypeOK, NEW p \in Producers, NEW life \in Lives, NEW producer \in Policy.producers
    PROVE  /\ Signed(p, life, producer) \in Row
           /\ Signed(p, life, producer).key = signing[p]
           /\ Signed(p, life, producer).sealed = ring[p].active
           /\ Signed(p, life, producer).occurred = Clock(p)
           /\ Signed(p, life, producer).expires = Clock(p) + life
           /\ Clock(p) \in Int /\ Clock(p) <= now + Drift /\ Clock(p) >= now - Drift
           /\ life \in 1..EventMaxAge
<1>1. p \in Procs /\ life \in 1..EventMaxAge /\ EventMaxAge \in Nat /\ Drift \in Nat
  BY RotationAssumption, EnvelopeAssumption DEF Procs
<1>2. now \in Nat /\ drift[p] \in -Drift..Drift
  BY <1>1 DEF TypeOK
<1>3. Clock(p) \in Int /\ Clock(p) <= now + Drift /\ Clock(p) >= now - Drift
  BY <1>1, <1>2 DEF Clock
<1>4. Clock(p) + life \in Int
  BY <1>1, <1>3
<1>5. signing[p] \in Keys /\ ring[p].active \in DataKeys
  BY DEF TypeOK, Keyring
<1> QED
  BY <1>1, <1>3, <1>4, <1>5 DEF Signed, Row, Encrypts

-----------------------------------------------------------------------------
(* Type correctness                                                        *)

\* The first state.
LEMMA InitInv == Init => Inv
<1> SUFFICES ASSUME Init PROVE Inv
  OBVIOUS
<1>1. FirstFiles \in [trusted : SUBSET Keys, signing : Keys, ring : Keyring]
  BY RotationAssumption DEF FirstFiles, Keyring
<1>2. TypeOK
  BY <1>1, RotationAssumption DEF Init, TypeOK, FirstFiles, Keyring
<1>3. \A m \in Messages : ~Posted(m)
  BY DEF Init, Posted
<1>4. RowTimes
  BY <1>3 DEF RowTimes
<1>5. KeysKnown
  BY <1>3 DEF KeysKnown, Known, Init, FirstFiles
<1>6. RingsKnown
  BY <1>3 DEF RingsKnown, Held, Init, FirstFiles
<1> QED
  BY <1>2, <1>4, <1>5, <1>6 DEF Inv

-----------------------------------------------------------------------------
(* Steps                                                                   *)

\* Time passes: a message that has run out stays so.
LEMMA TickInv == Inv /\ Tick => Inv'
<1> SUFFICES ASSUME Inv, Tick PROVE Inv'
  OBVIOUS
<1> USE DEF Inv
<1>1. /\ now \in Nat /\ now' = now + 1 /\ rows' = rows /\ up' = up
      /\ files' = files /\ trusted' = trusted /\ signing' = signing /\ ring' = ring
      /\ drift' = drift /\ accepted' = accepted
  BY DEF Tick, TypeOK, processVars, messageVars
<1>2. TypeOK'
  BY <1>1 DEF TypeOK
<1>3. \A m \in Messages : Posted(m)' = Posted(m) /\ (Posted(m) => rows[m].occurred \in Int /\ rows[m].expires \in Int)
  BY <1>1, RowOrNone DEF Posted, Row
<1>4. Drift \in Nat
  BY RotationAssumption
<1>5. RowTimes'
  BY <1>1, <1>3, <1>4 DEF RowTimes
<1>6. \A k : Known(k)' = Known(k)
  BY <1>1 DEF Known
<1>7. \A m \in Messages : Posted(m) /\ RunOut(m) => RunOut(m)'
  BY <1>1, <1>3, <1>4 DEF RunOut
<1>8. KeysKnown'
  BY <1>1, <1>3, <1>6, <1>7 DEF KeysKnown
<1>9. RingsKnown'
  BY <1>1, <1>3 DEF RingsKnown, Held
<1> QED
  BY <1>2, <1>5, <1>8, <1>9

\* A process that starts holds what is in the files.
LEMMA StartInv == \A p \in Procs : Inv /\ Start(p) => Inv'
<1> SUFFICES ASSUME NEW p \in Procs, Inv, Start(p) PROVE Inv'
  OBVIOUS
<1> USE DEF Inv
<1>1. /\ now' = now /\ drift' = drift /\ files' = files /\ rows' = rows /\ accepted' = accepted
      /\ up' = up \cup {p}
      /\ trusted' = [c \in Consumers |-> IF c = p THEN files.trusted ELSE trusted[c]]
      /\ signing' = [q \in Producers |-> IF q = p THEN files.signing ELSE signing[q]]
      /\ ring' = [q \in Producers |-> IF q = p THEN files.ring ELSE ring[q]]
  BY DEF Start, Holds, clocks, messageVars
<1>2. TypeOK'
  BY <1>1 DEF TypeOK, Procs
<1>3. RowTimes'
  BY <1>1 DEF RowTimes, Posted
<1>4. \A k : Known(k) => Known(k)'
  BY <1>1 DEF Known
<1>5. KeysKnown'
  BY <1>1, <1>4 DEF KeysKnown, Posted, RunOut
<1>6. \A d : Held(d) => Held(d)'
  BY <1>1 DEF Held
<1>7. RingsKnown'
  BY <1>1, <1>6 DEF RingsKnown, Posted
<1> QED
  BY <1>2, <1>3, <1>5, <1>7

\* A process that stops knows nothing, and nobody asks it.
LEMMA StopInv == \A p \in Procs : Inv /\ Stop(p) => Inv'
<1> SUFFICES ASSUME NEW p \in Procs, Inv, Stop(p) PROVE Inv'
  OBVIOUS
<1> USE DEF Inv
<1>1. /\ now' = now /\ drift' = drift /\ files' = files /\ rows' = rows /\ accepted' = accepted
      /\ up' = up \ {p}
      /\ trusted' = [c \in Consumers |-> IF c = p THEN FirstFiles.trusted ELSE trusted[c]]
      /\ signing' = [q \in Producers |-> IF q = p THEN FirstFiles.signing ELSE signing[q]]
      /\ ring' = [q \in Producers |-> IF q = p THEN FirstFiles.ring ELSE ring[q]]
  BY DEF Stop, Holds, clocks, messageVars
<1>2. /\ FirstFiles.trusted \in SUBSET Keys /\ FirstFiles.signing \in Keys
      /\ FirstFiles.ring \in Keyring
  BY RotationAssumption DEF FirstFiles, Keyring
<1>3. TypeOK'
  BY <1>1, <1>2 DEF TypeOK
<1>4. RowTimes'
  BY <1>1 DEF RowTimes, Posted
<1>5. \A k : Known(k) => Known(k)'
  BY <1>1 DEF Known
<1>6. KeysKnown'
  BY <1>1, <1>5 DEF KeysKnown, Posted, RunOut
<1>7. \A d : Held(d) => Held(d)'
  BY <1>1 DEF Held
<1>8. RingsKnown'
  BY <1>1, <1>7 DEF RingsKnown, Posted
<1> QED
  BY <1>3, <1>4, <1>6, <1>8

\* A row that is posted carries keys that everyone knows.
LEMMA PostInv ==
    \A p \in Producers, m \in Messages, life \in Lives : Inv /\ Post(p, m, life) => Inv'
<1> SUFFICES ASSUME NEW p \in Producers, NEW m \in Messages, NEW life \in Lives,
                    Inv, Post(p, m, life)
             PROVE  Inv'
  OBVIOUS
<1> USE DEF Inv
<1>1. PICK producer \in Policy.producers :
        rows' = [rows EXCEPT ![m] = Signed(p, life, producer)]
  BY DEF Post
<1>2. /\ p \in up
      /\ now' = now /\ drift' = drift /\ files' = files /\ accepted' = accepted
      /\ up' = up /\ trusted' = trusted /\ signing' = signing /\ ring' = ring
  BY DEF Post, clocks, processVars
<1> DEFINE row == Signed(p, life, producer)
<1>3. /\ row \in Row
      /\ row.key = signing[p]
      /\ row.sealed = ring[p].active
      /\ row.occurred = Clock(p)
      /\ row.expires = Clock(p) + life
      /\ Clock(p) \in Int /\ Clock(p) <= now + Drift
      /\ life \in 1..EventMaxAge
  BY SignedIsRow
<1>4. /\ rows'[m] = row
      /\ \A n \in Messages : n # m => rows'[n] = rows[n]
  BY <1>1 DEF TypeOK
<1> HIDE DEF row
<1>5. TypeOK'
  BY <1>1, <1>2, <1>3 DEF TypeOK, row
<1>6. EventMaxAge \in Nat
  BY EnvelopeAssumption
<1>7. RowTimes'
  BY <1>2, <1>3, <1>4, <1>6 DEF RowTimes, Posted
<1>8. \A k : Known(k)' = Known(k)
  BY <1>2 DEF Known
<1>9. KeysKnown'
  BY <1>2, <1>3, <1>4, <1>8 DEF KeysKnown, Posted, RunOut
<1>10. \A d : Held(d)' = Held(d)
  BY <1>2 DEF Held
<1>11. RingsKnown'
  BY <1>2, <1>3, <1>4, <1>10 DEF RingsKnown, Posted
<1> QED
  BY <1>5, <1>7, <1>9, <1>11

\* The publisher changes the status of a row and nothing else.
LEMMA StatusInv ==
    ASSUME Inv, NEW m \in Messages, Posted(m), NEW s \in {"PUBLISHED", "DEAD"},
           rows' = [rows EXCEPT ![m].status = s],
           UNCHANGED <<clocks, files, processVars, accepted>>
    PROVE  Inv'
<1> USE DEF Inv
<1>1. /\ now' = now /\ drift' = drift /\ files' = files /\ accepted' = accepted
      /\ up' = up /\ trusted' = trusted /\ signing' = signing /\ ring' = ring
  BY DEF clocks, processVars
<1>2. rows[m] \in Row
  BY RowOrNone
<1>3. /\ rows'[m] = [rows[m] EXCEPT !.status = s]
      /\ \A n \in Messages : n # m => rows'[n] = rows[n]
  BY DEF TypeOK
<1>4. /\ rows'[m] \in Row
      /\ rows'[m].key = rows[m].key /\ rows'[m].sealed = rows[m].sealed
      /\ rows'[m].occurred = rows[m].occurred /\ rows'[m].expires = rows[m].expires
  BY <1>2, <1>3 DEF Row
<1>5. rows' \in [Messages -> Row \cup {NoRow}]
  BY <1>2, <1>3, <1>4 DEF TypeOK
<1>6. TypeOK'
  BY <1>1, <1>5 DEF TypeOK
<1>7. RowTimes'
  BY <1>1, <1>3, <1>4 DEF RowTimes, Posted
<1>8. \A k : Known(k)' = Known(k)
  BY <1>1 DEF Known
<1>9. KeysKnown'
  BY <1>1, <1>3, <1>4, <1>8 DEF KeysKnown, Posted, RunOut
<1>10. \A d : Held(d)' = Held(d)
  BY <1>1 DEF Held
<1>11. RingsKnown'
  BY <1>1, <1>3, <1>4, <1>10 DEF RingsKnown, Posted
<1> QED
  BY <1>6, <1>7, <1>9, <1>11

\* A new file: keys may be added; the one to be used is known to everyone;
\* what is taken out is used by nobody and has nothing under way.
LEMMA FilesInv ==
    ASSUME Inv, NEW f \in [trusted : SUBSET Keys, signing : Keys, ring : Keyring], Sets(f),
           f.signing \in f.trusted,
           \A c \in Consumers \cap up : f.signing \in trusted[c],
           \A p \in Producers \cap up : signing[p] \in f.trusted,
           \A m \in Messages : Posted(m) => RunOut(m) \/ rows[m].key \in f.trusted,
           Held(f.ring.active),
           f.ring.active \in f.ring.keys,
           \A p \in Producers \cap up : ring[p].active \in f.ring.keys,
           \A m \in Messages : Posted(m) => rows[m].sealed \in f.ring.keys
    PROVE  Inv'
<1> USE DEF Inv
<1>1. /\ files' = f
      /\ now' = now /\ drift' = drift /\ rows' = rows /\ accepted' = accepted
      /\ up' = up /\ trusted' = trusted /\ signing' = signing /\ ring' = ring
  BY DEF Sets, clocks, processVars, messageVars
<1>2. TypeOK'
  BY <1>1 DEF TypeOK
<1>3. RowTimes'
  BY <1>1 DEF RowTimes, Posted
<1>4. \A k : Known(k) /\ k \in f.trusted => Known(k)'
  BY <1>1 DEF Known
<1>5. Known(f.signing)'
  BY <1>1 DEF Known
<1>6. KeysKnown'
  BY <1>1, <1>4, <1>5 DEF KeysKnown, Posted, RunOut
<1>7. \A d : Held(d) /\ d \in f.ring.keys => Held(d)'
  BY <1>1 DEF Held
<1>8. RingsKnown'
  BY <1>1, <1>7 DEF RingsKnown, Posted
<1> QED
  BY <1>2, <1>3, <1>6, <1>8

\* The operator's steps on signing keys.
LEMMA SigningInv == \A k \in Keys : Inv /\ (TrustKey(k) \/ UseKey(k) \/ DropKey(k)) => Inv'
<1> SUFFICES ASSUME NEW k \in Keys, Inv, TrustKey(k) \/ UseKey(k) \/ DropKey(k) PROVE Inv'
  OBVIOUS
<1>1. /\ files \in [trusted : SUBSET Keys, signing : Keys, ring : Keyring]
      /\ Known(files.signing)
      /\ \A p \in Producers \cap up : Known(signing[p])
      /\ \A m \in Messages : Posted(m) => RunOut(m) \/ Known(rows[m].key)
      /\ Held(files.ring.active)
      /\ \A p \in Producers \cap up : Held(ring[p].active)
      /\ \A m \in Messages : Posted(m) => Held(rows[m].sealed)
  BY DEF Inv, TypeOK, KeysKnown, RingsKnown
<1>2. CASE TrustKey(k)
  <2> DEFINE f == [files EXCEPT !.trusted = @ \cup {k}]
  <2>1. /\ f \in [trusted : SUBSET Keys, signing : Keys, ring : Keyring]
        /\ f.trusted = files.trusted \cup {k} /\ f.signing = files.signing
        /\ f.ring = files.ring
    BY <1>1
  <2>2. Sets(f)
    BY <1>2 DEF TrustKey
  <2> HIDE DEF f
  <2> QED
    BY <1>1, <2>1, <2>2, FilesInv DEF Known, Held
<1>3. CASE UseKey(k)
  <2> DEFINE f == [files EXCEPT !.signing = k]
  <2>1. /\ f \in [trusted : SUBSET Keys, signing : Keys, ring : Keyring]
        /\ f.trusted = files.trusted /\ f.signing = k
        /\ f.ring = files.ring
    BY <1>1
  <2>2. /\ Sets(f)
        /\ k \in files.trusted
        /\ \A c \in Consumers \cap up : k \in trusted[c]
    BY <1>3 DEF UseKey
  <2> HIDE DEF f
  <2> QED
    BY <1>1, <2>1, <2>2, FilesInv DEF Known, Held
<1>4. CASE DropKey(k)
  <2> DEFINE f == [files EXCEPT !.trusted = @ \ {k}]
  <2>1. /\ f \in [trusted : SUBSET Keys, signing : Keys, ring : Keyring]
        /\ f.trusted = files.trusted \ {k} /\ f.signing = files.signing
        /\ f.ring = files.ring
    BY <1>1
  <2>2. /\ Sets(f)
        /\ k # files.signing
        /\ \A p \in Producers \cap up : signing[p] # k
        /\ \A m \in Messages : Posted(m) /\ rows[m].key = k => RunOut(m)
    BY <1>4 DEF DropKey
  <2> HIDE DEF f
  <2> QED
    BY <1>1, <2>1, <2>2, FilesInv DEF Known, Held
<1> QED
  BY <1>2, <1>3, <1>4

\* The operator's steps on data keys.
LEMMA DataKeyInv ==
    \A d \in DataKeys : Inv /\ (AddDataKey(d) \/ UseDataKey(d) \/ DropDataKey(d)) => Inv'
<1> SUFFICES ASSUME NEW d \in DataKeys, Inv, AddDataKey(d) \/ UseDataKey(d) \/ DropDataKey(d)
             PROVE  Inv'
  OBVIOUS
<1>1. /\ files \in [trusted : SUBSET Keys, signing : Keys, ring : Keyring]
      /\ files.ring \in Keyring
      /\ Known(files.signing)
      /\ \A p \in Producers \cap up : Known(signing[p])
      /\ \A m \in Messages : Posted(m) => RunOut(m) \/ Known(rows[m].key)
      /\ Held(files.ring.active)
      /\ \A p \in Producers \cap up : Held(ring[p].active)
      /\ \A m \in Messages : Posted(m) => Held(rows[m].sealed)
  BY DEF Inv, TypeOK, KeysKnown, RingsKnown
<1>2. CASE AddDataKey(d)
  <2> DEFINE f == [files EXCEPT !.ring.keys = @ \cup {d}]
  <2>1. /\ f \in [trusted : SUBSET Keys, signing : Keys, ring : Keyring]
        /\ f.trusted = files.trusted /\ f.signing = files.signing
        /\ f.ring.active = files.ring.active /\ f.ring.keys = files.ring.keys \cup {d}
    BY <1>1 DEF Keyring
  <2>2. Sets(f)
    BY <1>2 DEF AddDataKey
  <2> HIDE DEF f
  <2> QED
    BY <1>1, <2>1, <2>2, FilesInv DEF Known, Held
<1>3. CASE UseDataKey(d)
  <2> DEFINE f == [files EXCEPT !.ring.active = d]
  <2>1. /\ f \in [trusted : SUBSET Keys, signing : Keys, ring : Keyring]
        /\ f.trusted = files.trusted /\ f.signing = files.signing
        /\ f.ring.active = d /\ f.ring.keys = files.ring.keys
    BY <1>1 DEF Keyring
  <2>2. /\ Sets(f)
        /\ Held(d)
    BY <1>3 DEF UseDataKey, Held
  <2> HIDE DEF f
  <2> QED
    BY <1>1, <2>1, <2>2, FilesInv DEF Known, Held
<1>4. CASE DropDataKey(d)
  <2> DEFINE f == [files EXCEPT !.ring.keys = @ \ {d}]
  <2>1. /\ f \in [trusted : SUBSET Keys, signing : Keys, ring : Keyring]
        /\ f.trusted = files.trusted /\ f.signing = files.signing
        /\ f.ring.active = files.ring.active /\ f.ring.keys = files.ring.keys \ {d}
    BY <1>1 DEF Keyring
  <2>2. /\ Sets(f)
        /\ d # files.ring.active
        /\ \A p \in Producers \cap up : ring[p].active # d
        /\ \A m \in Messages : Posted(m) => rows[m].sealed # d
    BY <1>4 DEF DropDataKey
  <2> HIDE DEF f
  <2> QED
    BY <1>1, <2>1, <2>2, FilesInv DEF Known, Held
<1> QED
  BY <1>2, <1>3, <1>4

\* Every step keeps the invariant.
LEMMA NextInv == Inv /\ [Next]_vars => Inv'
<1> SUFFICES ASSUME Inv, [Next]_vars PROVE Inv'
  OBVIOUS
<1>1. CASE Tick
  BY <1>1, TickInv
<1>2. ASSUME NEW p \in Procs, Process(p) PROVE Inv'
  BY <1>2, StartInv, StopInv DEF Process
<1>3. ASSUME NEW m \in Messages, NEW p \in Producers, Produce(p, m) PROVE Inv'
  <2>1. ASSUME NEW life \in Lives, Post(p, m, life) PROVE Inv'
    BY <2>1, PostInv
  <2>2. CASE Publish(p, m)
    <3>1. Posted(m)
      BY <2>2, RowOrNone DEF Publish, Inv
    <3> QED
      BY <2>2, <3>1, StatusInv DEF Publish
  <2> QED
    BY <1>3, <2>1, <2>2 DEF Produce
<1>4. ASSUME NEW m \in Messages, Expire(m) PROVE Inv'
  <2>1. Posted(m)
    BY <1>4, RowOrNone DEF Expire, Open, Inv
  <2> QED
    BY <1>4, <2>1, StatusInv DEF Expire
<1>5. ASSUME NEW m \in Messages, NEW c \in Consumers, Deliver(c, m) PROVE Inv'
  <2>1. /\ now' = now /\ drift' = drift /\ files' = files /\ rows' = rows
        /\ up' = up /\ trusted' = trusted /\ signing' = signing /\ ring' = ring
        /\ accepted' = accepted \cup {m}
    BY <1>5 DEF Deliver, clocks, processVars
  <2> QED
    BY <2>1 DEF Inv, TypeOK, RowTimes, KeysKnown, Known, RingsKnown, Held, Posted, RunOut
<1>6. CASE Operator
  BY <1>6, SigningInv, DataKeyInv DEF Operator
<1>7. CASE UNCHANGED vars
  BY <1>7 DEF vars, Inv, TypeOK, RowTimes, KeysKnown, Known, RingsKnown, Held, Posted, RunOut
<1> QED
  BY <1>1, <1>2, <1>3, <1>4, <1>5, <1>6, <1>7 DEF Next

-----------------------------------------------------------------------------
(* Theorems                                                                *)

\* The inductive invariant holds in every state (Init and every step of
\* processes, messages and operator).
LEMMA AlwaysInv == Spec => []Inv
  BY InitInv, NextInv, PTL DEF Spec

\* Every variable has its type throughout, whatever the keys and processes.
THEOREM TypeCorrect == Spec => []TypeOK
<1>1. Inv => TypeOK
  BY DEF Inv
<1> QED
  BY <1>1, AlwaysInv, PTL

\* No replica ever meets a row it cannot decrypt (OpenOutbox), for any number
\* of replicas, keys and rows, as long as keys are changed in order.
THEOREM ReplicasReadRows == Spec => []RowsReadable
<1>1. Inv => RowsReadable
  <2> SUFFICES ASSUME Inv, NEW p \in Producers \cap up, NEW m \in Messages, Open(m)
               PROVE  Decrypts(ring[p], rows[m].sealed)
    BY DEF RowsReadable
  <2>1. Posted(m)
    BY RowOrNone DEF Open, Inv
  <2> QED
    BY <2>1 DEF Inv, RingsKnown, Held, Decrypts
<1> QED
  BY <1>1, AlwaysInv, PTL

\* Verify accepts every live, well-signed message at every running consumer,
\* for any clocks within Drift, any lives up to EventMaxAge and any keys.
THEOREM LiveMessagesAccepted == Spec => []LiveIsAccepted
<1>1. Inv => LiveIsAccepted
  <2> SUFFICES ASSUME Inv, NEW c \in Consumers \cap up, NEW m \in Messages,
                      rows[m].status \in {"PUBLISHED", "DEAD"},
                      Clock(c) <= rows[m].expires, WellSigned(m)
               PROVE  Verifies(c, m)
    BY DEF LiveIsAccepted
  <2>1. Posted(m) /\ rows[m] \in Row
    BY RowOrNone DEF Inv
  <2>2. /\ rows[m].occurred \in Int /\ rows[m].expires \in Int
        /\ PolicyAllows(Policy, rows[m])
    BY <2>1 DEF Row, PolicyAllows
  <2>3. /\ rows[m].occurred <= now + Drift
        /\ rows[m].occurred < rows[m].expires
        /\ rows[m].expires <= rows[m].occurred + EventMaxAge
    BY <2>1 DEF Inv, RowTimes
  <2>4. /\ now \in Nat /\ drift[c] \in -Drift..Drift
        /\ Drift \in Nat /\ Skew \in Nat /\ EventMaxAge \in Nat /\ 2 * Drift <= Skew
    BY RotationAssumption, EnvelopeAssumption DEF Inv, TypeOK, Procs
  <2>5. /\ ValidateFields(rows[m]) /\ NotFromFuture(rows[m], Clock(c))
        /\ NotTooOld(rows[m], Clock(c)) /\ NotExpired(rows[m], Clock(c))
    BY <2>2, <2>3, <2>4 DEF Clock, ValidateFields, NotFromFuture, NotTooOld, NotExpired
  <2>6. ~RunOut(m)
    BY <2>2, <2>4 DEF RunOut, Clock
  <2>7. rows[m].key \in trusted[c]
    BY <2>1, <2>6 DEF Inv, KeysKnown, Known
  <2>8. Lookup(trusted[c], rows[m].key, rows[m].occurred)
    BY <2>7 DEF WellSigned, Lookup
  <2> QED
    BY <2>2, <2>5, <2>8 DEF Verifies, Verify
<1> QED
  BY <1>1, AlwaysInv, PTL

\* Nothing is accepted (Deliver) later than Skew and one clock's error after
\* its expiry.
THEOREM NothingLate == Spec => NothingAppliedLate
<1>1. Inv /\ [Next]_vars =>
        [\A m \in accepted' \ accepted : now <= rows[m].expires + Skew + Drift]_vars
  <2> SUFFICES ASSUME Inv, Next, NEW m \in accepted' \ accepted
               PROVE  now <= rows[m].expires + Skew + Drift
    OBVIOUS
  <2>0. m \in Messages /\ \E c \in Consumers : Deliver(c, m)
    <3>1. ~Tick
      BY DEF Tick, messageVars
    <3>2. \A p \in Procs : ~Process(p)
      BY DEF Process, Start, Stop, messageVars
    <3>3. \A p \in Producers, n \in Messages : ~Produce(p, n)
      BY DEF Produce, Post, Publish
    <3>4. \A n \in Messages : ~Expire(n)
      BY DEF Expire
    <3>5. ~Operator
      BY DEF Operator, TrustKey, UseKey, DropKey, AddDataKey, UseDataKey, DropDataKey,
             Sets, messageVars
    <3>6. PICK n \in Messages, c \in Consumers : Deliver(c, n)
      BY <3>1, <3>2, <3>3, <3>4, <3>5 DEF Next
    <3> QED
      BY <3>6 DEF Deliver
  <2>1. PICK c \in Consumers : Deliver(c, m)
    BY <2>0
  <2>2. rows[m].status \in {"PUBLISHED", "DEAD"} /\ c \in up
    BY <2>1 DEF Deliver
  <2>3. rows[m].expires \in Int
    BY <2>0, <2>2, RowOrNone DEF Inv, Row
  <2>4. Clock(c) <= rows[m].expires + Skew
    BY <2>1 DEF Deliver, Verifies, Verify, NotExpired
  <2>5. now \in Nat /\ drift[c] \in -Drift..Drift /\ Drift \in Nat /\ Skew \in Nat
    BY RotationAssumption, EnvelopeAssumption DEF Inv, TypeOK, Procs
  <2> QED
    BY <2>3, <2>4, <2>5 DEF Clock
<1> QED
  BY <1>1, AlwaysInv, PTL DEF Spec, NothingAppliedLate
=============================================================================
