---------------------------- MODULE KeyRotation -----------------------------
(***************************************************************************)
(* Signing keys and data keys are changed while messages are under way.    *)
(*                                                                         *)
(* Producers are the replicas of one service: they share a database, sign  *)
(* with the key their configuration names, seal every outbox row with the  *)
(* active key of their data keyring, and publish one another's rows.       *)
(* Consumers are processes of other services, which verify the envelopes.  *)
(* A process reads its files once, at start-up                             *)
(* (loadSecurityMaterial of internal/platform/runtime/runtime.go), and     *)
(* goes on with what it read until it is restarted.                        *)
(*                                                                         *)
(* The operator is not part of the code.  It follows the order of          *)
(* docs/project/security-and-operations.md (signing keys) and              *)
(* docs/project/technical-decisions.md (data keys).                        *)
(***************************************************************************)
EXTENDS Envelope, FiniteSets

CONSTANTS
    Producers, Consumers,
    DataKeys,
    Messages,     \* the messages that may be posted
    Lives,        \* how long after being signed a message expires
    Drift,        \* no clock is further than this from that of the database
    MaxTime,      \* bound: when the model's time ends
    Policy,       \* what the subscription of the consumers allows
    FirstKey, FirstDataKey

Procs == Producers \cup Consumers

ASSUME RotationAssumption ==
    /\ Producers \cap Consumers = {}
    /\ Lives \subseteq 1..EventMaxAge
    /\ Drift \in Nat /\ 2 * Drift <= Skew
    /\ MaxTime \in Nat
    /\ FirstKey \in Keys /\ FirstDataKey \in DataKeys
    /\ \A k \in Keys : ValidUntil[k] > ValidFrom[k]

VARIABLES
    now,      \* the clock of the database
    drift,    \* by how much the clock of a process differs from it
    files,    \* what a process would read if it started now
    up,       \* the processes that run
    trusted,  \* the manifest a consumer has read
    signing,  \* the key_id a producer has read
    ring,     \* the data keyring a producer has read
    rows,     \* the outbox: message -> row
    accepted  \* messages some consumer has verified

vars == <<now, drift, files, up, trusted, signing, ring, rows, accepted>>
clocks == <<now, drift>>
processVars == <<up, trusted, signing, ring>>
messageVars == <<rows, accepted>>

Clock(p) == now + drift[p]

Keyring == [active : DataKeys, keys : SUBSET DataKeys]

NoRow == [status |-> "NONE"]

Row == [status : {"PENDING", "PUBLISHED", "DEAD"}, sealed : DataKeys,
        subject : {Policy.subject}, type : {Policy.type}, producer : Policy.producers,
        key : Keys, occurred : Int, expires : Int]

\* Every variable has its type.
TypeOK ==
    /\ now \in Nat /\ drift \in [Procs -> -Drift..Drift]
    /\ files \in [trusted : SUBSET Keys, signing : Keys, ring : Keyring]
    /\ up \subseteq Procs
    /\ trusted \in [Consumers -> SUBSET Keys]
    /\ signing \in [Producers -> Keys]
    /\ ring \in [Producers -> Keyring]
    /\ rows \in [Messages -> Row \cup {NoRow}]
    /\ accepted \subseteq Messages

\* Also what a process that is down is said to hold.
FirstFiles == [trusted |-> {FirstKey}, signing |-> FirstKey,
               ring |-> [active |-> FirstDataKey, keys |-> {FirstDataKey}]]

Init ==
    /\ now = 0 /\ drift \in [Procs -> -Drift..Drift]
    /\ files = FirstFiles
    /\ up = {}
    /\ trusted = [c \in Consumers |-> {FirstKey}]
    /\ signing = [p \in Producers |-> FirstKey]
    /\ ring = [p \in Producers |-> FirstFiles.ring]
    /\ rows = [m \in Messages |-> NoRow]
    /\ accepted = {}

Tick ==
    /\ now < MaxTime
    /\ now' = now + 1
    /\ UNCHANGED <<drift, files, processVars, messageVars>>

-----------------------------------------------------------------------------
(* Processes                                                               *)

\* loadSecurityMaterial succeeds.  A consumer is of another service, whose
\* own keys are left out.
Loads(p) ==
    /\ LoadableManifest(files.trusted)
    /\ p \in Producers => /\ Lookup(files.trusted, files.signing, Clock(p))
                          /\ LoadableKeyring(files.ring)

\* Process p holds what it has read of f, and the others what they held.
Holds(p, f) ==
    /\ trusted' = [c \in Consumers |-> IF c = p THEN f.trusted ELSE trusted[c]]
    /\ signing' = [q \in Producers |-> IF q = p THEN f.signing ELSE signing[q]]
    /\ ring' = [q \in Producers |-> IF q = p THEN f.ring ELSE ring[q]]

\* A process that cannot load its files ends at once: it stays down.
Start(p) ==
    /\ p \notin up
    /\ Loads(p)
    /\ up' = up \cup {p}
    /\ Holds(p, files)
    /\ UNCHANGED <<clocks, files, messageVars>>

\* A crash, or a deployment that takes the process down.
Stop(p) ==
    /\ p \in up
    /\ up' = up \ {p}
    /\ Holds(p, FirstFiles)
    /\ UNCHANGED <<clocks, files, messageVars>>

-----------------------------------------------------------------------------
(* Messages                                                                *)

Posted(m) == rows[m] # NoRow

\* What p would sign and seal now, to expire life later.
Signed(p, life, producer) ==
    [status |-> "PENDING", sealed |-> Encrypts(ring[p]),
     subject |-> Policy.subject, type |-> Policy.type, producer |-> producer,
     key |-> signing[p], occurred |-> Clock(p), expires |-> Clock(p) + life]

\* Codec.Sign and SealOutbox, within the transaction of a handler of p.
Post(p, m, life) ==
    /\ p \in up /\ ~Posted(m)
    /\ \E producer \in Policy.producers :
        rows' = [rows EXCEPT ![m] = Signed(p, life, producer)]
    /\ UNCHANGED <<clocks, files, processVars, accepted>>

Open(m) == rows[m].status \in {"PENDING", "PUBLISHED"}

\* The first statement of publishBatch.
Expire(m) ==
    /\ Open(m) /\ rows[m].expires <= now
    /\ rows' = [rows EXCEPT ![m].status = "DEAD"]
    /\ UNCHANGED <<clocks, files, processVars, accepted>>

\* publishOne: a row that OpenOutbox cannot decrypt is left PENDING.
Publish(p, m) ==
    /\ p \in up
    /\ rows[m].status = "PENDING" /\ rows[m].expires > now
    /\ Decrypts(ring[p], rows[m].sealed)
    /\ rows' = [rows EXCEPT ![m].status = "PUBLISHED"]
    /\ UNCHANGED <<clocks, files, processVars, accepted>>

\* The envelope of m as c sees it now.
Verifies(c, m) == Verify(rows[m], trusted[c], Policy, Clock(c))

\* NATS may deliver late and, since commands are published again, often.
Deliver(c, m) ==
    /\ c \in up
    /\ rows[m].status \in {"PUBLISHED", "DEAD"}
    /\ Verifies(c, m)
    /\ accepted' = accepted \cup {m}
    /\ UNCHANGED <<clocks, files, processVars, rows>>

-----------------------------------------------------------------------------
(* The operator                                                            *)

Sets(f) == files' = f /\ UNCHANGED <<clocks, processVars, messageVars>>

\* First the consumers learn the new key ...
TrustKey(k) ==
    /\ k \notin files.trusted
    /\ Sets([files EXCEPT !.trusted = @ \cup {k}])

\* ... then the producers are configured to use it ...
UseKey(k) ==
    /\ k \in files.trusted \ {files.signing}
    /\ \A c \in up \cap Consumers : k \in trusted[c]
    /\ Sets([files EXCEPT !.signing = k])

\* The message can no longer be taken for a live one on any clock.
RunOut(m) == now - Drift > rows[m].expires

\* ... and the old key goes when nothing it has signed can still arrive.
DropKey(k) ==
    /\ k \in files.trusted \ {files.signing}
    /\ \A p \in up \cap Producers : signing[p] # k
    /\ \A m \in Messages : Posted(m) /\ rows[m].key = k => RunOut(m)
    /\ Sets([files EXCEPT !.trusted = @ \ {k}])

AddDataKey(d) ==
    /\ d \notin files.ring.keys
    /\ Sets([files EXCEPT !.ring.keys = @ \cup {d}])

\* technical-decisions.md:117 has the key added and then made active.  The
\* second guard is a reading of it: not before every replica that runs has
\* loaded the new key.  RowsReadable rests on it.
UseDataKey(d) ==
    /\ d \in files.ring.keys \ {files.ring.active}
    /\ \A p \in up \cap Producers : d \in ring[p].keys
    /\ Sets([files EXCEPT !.ring.active = d])

\* rows_with_old_key = 0, and no replica writes with it any more.
DropDataKey(d) ==
    /\ d \in files.ring.keys \ {files.ring.active}
    /\ \A p \in up \cap Producers : ring[p].active # d
    /\ \A m \in Messages : Posted(m) => rows[m].sealed # d
    /\ Sets([files EXCEPT !.ring.keys = @ \ {d}])

Operator ==
    \/ \E k \in Keys : TrustKey(k) \/ UseKey(k) \/ DropKey(k)
    \/ \E d \in DataKeys : AddDataKey(d) \/ UseDataKey(d) \/ DropDataKey(d)

Process(p) == Start(p) \/ Stop(p)

Produce(p, m) == (\E life \in Lives : Post(p, m, life)) \/ Publish(p, m)

Next ==
    \/ Tick
    \/ \E p \in Procs : Process(p)
    \/ \E m \in Messages :
        \/ \E p \in Producers : Produce(p, m)
        \/ Expire(m)
        \/ \E c \in Consumers : Deliver(c, m)
    \/ Operator

Spec == Init /\ [][Next]_vars

-----------------------------------------------------------------------------
(* Properties                                                              *)

\* The key of m was valid when m was signed.
WellSigned(m) == Lookup({rows[m].key}, rows[m].key, rows[m].occurred)

\* A message that was published, that has not expired on the clock of a
\* running consumer, and whose signer had not outlived its key (a key is
\* checked at start-up only, runtime.go:264) passes Verify there: neither
\* the clocks, nor a restart, nor a change of keys in the documented order
\* makes a consumer refuse it.
LiveIsAccepted ==
    \A c \in Consumers \cap up, m \in Messages :
        rows[m].status \in {"PUBLISHED", "DEAD"} /\ Clock(c) <= rows[m].expires
            /\ WellSigned(m) => Verifies(c, m)

\* Every running replica can decrypt every row it may have to publish
\* (OpenOutbox of store.go), whoever wrote the row and with which keyring.
RowsReadable ==
    \A p \in Producers \cap up, m \in Messages :
        Open(m) => Decrypts(ring[p], rows[m].sealed)

\* A consumer applies nothing that the producers' database has given up more
\* than Skew and one clock's error ago (Verify's windows).
NothingAppliedLate ==
    [][\A m \in accepted' \ accepted : now <= rows[m].expires + Skew + Drift]_vars
=============================================================================
