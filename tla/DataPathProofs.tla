--------------------------- MODULE DataPathProofs ---------------------------
(***************************************************************************)
(* What holds of the way from a provider to a signal: the credentials that *)
(* open it, the router that asks the providers in turn, and the feed that  *)
(* turns candles into signals.  The three models share no variable and     *)
(* are proved side by side, for any threads, providers, series and hubs.   *)
(***************************************************************************)
EXTENDS CredentialVault, MarketData, SignalFeed, SequenceTheorems, FiniteSetTheorems, WellFoundedInduction, TLAPS

\* A set of numbers that has members has a smallest one.
LEMMA SmallestExists ==
    ASSUME NEW S \in SUBSET Nat, S # {}
    PROVE  \E x \in S : \A y \in S : x <= y
<1>1. \E x \in S : \A y \in S : ~ (<<y, x>> \in OpToRel(<, Nat))
  BY NatLessThanWellFounded, WFMin
<1>2. PICK x \in S : \A y \in S : ~ (<<y, x>> \in OpToRel(<, Nat))
  BY <1>1
<1>3. ASSUME NEW y \in S PROVE x <= y
  <2>1. <<y, x>> \in Nat \X Nat /\ <<y, x>>[1] = y /\ <<y, x>>[2] = x
    OBVIOUS
  <2>2. y < x => <<y, x>> \in OpToRel(<, Nat)
    BY <2>1 DEF OpToRel
  <2>3. ~(y < x)
    BY <1>2, <2>2
  <2> QED
    BY <2>3
<1> QED
  BY <1>3

-----------------------------------------------------------------------------
(***************************************************************************)
(* The vault.  First the types, flags apart from data.                     *)
(***************************************************************************)
VaultFlags == up \in BOOLEAN /\ overlapped \in BOOLEAN /\ tornBy \in BOOLEAN

VaultData ==
    /\ vaultFile \in Files \union {Absent, TornFile}
    /\ keyFile \in Keys \union {Torn}
    /\ fernet \in Keys
    /\ call \in [Threads -> Calls \union {Idle}]
    /\ doc \in [Threads -> SUBSET Names]
    /\ router \subseteq Names
    /\ rotations \in 0..MaxRotations
    /\ calls \in 0..MaxCalls
    /\ starts \in 0..MaxStarts
    /\ wanted \subseteq Names

\* The flags of the process and of the history stay Booleans.
LEMMA VaultFlagsTyping == VaultSpec => []VaultFlags
<1> USE DEF VaultFlags, fileVars, memoryVars, callVars, countVars, historyVars
<1>1. VaultInit => VaultFlags
  BY DEF VaultInit
<1>2. VaultFlags /\ [VaultNext]_vaultVars => VaultFlags'
  <2> SUFFICES ASSUME VaultFlags, [VaultNext]_vaultVars
               PROVE  VaultFlags'
    OBVIOUS
  <2>1. ASSUME NEW t \in Threads, NEW op, NEW name, Begin(t, op, name)
        PROVE  VaultFlags'
    BY <2>1 DEF Begin
  <2>2. ASSUME NEW t \in Threads, VaultStep(t)
        PROVE  VaultFlags'
    BY <2>2 DEF VaultStep, Read, ReadFails, Truncate, Write, Swap, TruncateKey,
            WriteKey, Build, BuildFails, Assign
  <2>3. CASE Crash \/ Start
    BY <2>3 DEF Crash, Start
  <2>4. CASE UNCHANGED vaultVars
    BY <2>4 DEF vaultVars
  <2> QED
    BY <2>1, <2>2, <2>3, <2>4 DEF VaultNext, Save, Delete, Rotate
<1> QED
  BY <1>1, <1>2, PTL DEF VaultSpec

\* A step of a call leads to another step of the same call.
LEMMA GoesOn ==
    ASSUME NEW t \in Threads, NEW step \in Steps, call \in [Threads -> Calls \union {Idle}],
           call[t].step \in Steps, Goes(t, step)
    PROVE  /\ call' \in [Threads -> Calls \union {Idle}]
           /\ call'[t] = [op |-> call[t].op, name |-> call[t].name, step |-> step]
           /\ \A u \in Threads \ {t} : call'[u] = call[u]
<1>1. call[t] \in Calls
  BY DEF Idle, Steps
<1>2. [call[t] EXCEPT !.step = step]
        = [op |-> call[t].op, name |-> call[t].name, step |-> step]
  BY <1>1 DEF Calls
<1>3. [call[t] EXCEPT !.step = step] \in Calls
  BY <1>1, <1>2 DEF Calls
<1>4. call' = [call EXCEPT ![t] = [call[t] EXCEPT !.step = step]]
  BY DEF Goes
<1> QED
  BY <1>2, <1>3, <1>4

\* Files, keys, calls, documents and counters keep their types.
LEMMA VaultDataTyping == VaultSpec => []VaultData
<1> USE CredentialVaultAssumption
    DEF CredentialVaultAssumption, fileVars, memoryVars, callVars, countVars, historyVars
<1>1. VaultInit => VaultData
  <2> SUFFICES ASSUME VaultInit
               PROVE  VaultData
    OBVIOUS
  <2>1. vaultFile \in Files \union {Absent, TornFile} /\ call \in [Threads -> Calls \union {Idle}]
    BY DEF VaultInit
  <2>2. 1 \in Keys /\ 0 \in 0..MaxRotations /\ 0 \in 0..MaxCalls /\ 1 \in 0..MaxStarts
    BY DEF Keys
  <2> QED
    BY <2>1, <2>2 DEF VaultInit, VaultData
<1>2. VaultData /\ [VaultNext]_vaultVars => VaultData'
  <2> SUFFICES ASSUME VaultData, [VaultNext]_vaultVars
               PROVE  VaultData'
    OBVIOUS
  <2>1. ASSUME NEW t \in Threads, NEW n \in Names, Save(t, n)
        PROVE  VaultData'
    BY <2>1 DEF Save, Begin, VaultData, Calls, Steps
  <2>2. ASSUME NEW t \in Threads, NEW n \in Names, Delete(t, n)
        PROVE  VaultData'
    BY <2>2 DEF Delete, Begin, VaultData, Calls, Steps
  <2>3. ASSUME NEW t \in Threads, Rotate(t)
        PROVE  VaultData'
    BY <2>3 DEF Rotate, Begin, VaultData, Calls, Steps
  <2>4. ASSUME NEW t \in Threads, Read(t)
        PROVE  VaultData'
    <3>1. call[t].step = "read" /\ Goes(t, "truncate")
      BY <2>4 DEF Read, At
    <3>2. call[t] \in Calls
      BY <3>1 DEF VaultData, Idle
    <3>3. call' \in [Threads -> Calls \union {Idle}]
      BY <3>1, GoesOn DEF VaultData, Steps
    <3>4. call' \in [Threads -> Calls \union {Idle}] /\ call[t] \in Calls
      BY <3>2, <3>3
    <3>5. vaultFile.names \subseteq Names
      BY DEF VaultData, Files, Absent, TornFile
    <3>6. call[t].op \in {"save", "delete"} => call[t].name \in Names
      BY <3>4 DEF Calls
    <3>7. doc' \in [Threads -> SUBSET Names]
      BY <2>4, <3>5, <3>6 DEF Read, VaultData
    <3> QED
      BY <2>4, <3>4, <3>7 DEF Read, VaultData
  <2>5. ASSUME NEW t \in Threads, ReadFails(t) \/ BuildFails(t)
        PROVE  VaultData'
    BY <2>5 DEF ReadFails, BuildFails, VaultData
  <2>6. ASSUME NEW t \in Threads, Truncate(t)
        PROVE  VaultData'
    <3>1. call' \in [Threads -> Calls \union {Idle}]
      BY <2>6, GoesOn DEF Truncate, At, VaultData, Steps
    <3> QED
      BY <2>6, <3>1 DEF Truncate, VaultData
  <2>7. ASSUME NEW t \in Threads
        PROVE  KeyOf(t) \in Keys
    BY DEF KeyOf, VaultData, Keys
  <2>8. ASSUME NEW t \in Threads, Write(t)
        PROVE  VaultData'
    <3>1. call' \in [Threads -> Calls \union {Idle}]
      BY <2>8, GoesOn DEF Write, At, VaultData, Steps
    <3>2. vaultFile' \in Files
      BY <2>7, <2>8 DEF Write, Files, VaultData
    <3> QED
      BY <2>8, <3>1, <3>2 DEF Write, VaultData
  <2>9. ASSUME NEW t \in Threads, Swap(t)
        PROVE  VaultData'
    <3>1. call' \in [Threads -> Calls \union {Idle}]
      BY <2>9, GoesOn DEF Swap, At, VaultData, Steps
    <3> QED
      BY <2>7, <2>9, <3>1 DEF Swap, VaultData
  <2>10. ASSUME NEW t \in Threads, TruncateKey(t)
         PROVE  VaultData'
    <3>1. call' \in [Threads -> Calls \union {Idle}]
      BY <2>10, GoesOn DEF TruncateKey, At, VaultData, Steps
    <3> QED
      BY <2>10, <3>1 DEF TruncateKey, VaultData
  <2>11. ASSUME NEW t \in Threads, WriteKey(t)
         PROVE  VaultData'
    BY <2>7, <2>11 DEF WriteKey, VaultData
  <2>12. ASSUME NEW t \in Threads, Build(t)
         PROVE  VaultData'
    <3>1. call' \in [Threads -> Calls \union {Idle}]
      BY <2>12, GoesOn DEF Build, At, VaultData, Steps
    <3>2. vaultFile.names \subseteq Names
      BY DEF VaultData, Files, Absent, TornFile
    <3> QED
      BY <2>12, <3>1, <3>2 DEF Build, VaultData, InForce
  <2>13. ASSUME NEW t \in Threads, Assign(t)
         PROVE  VaultData'
    BY <2>13 DEF Assign, VaultData
  <2>14. CASE Crash
    BY <2>14 DEF Crash, VaultData
  <2>15. CASE Start
    <3>1. vaultFile.names \subseteq Names
      BY DEF VaultData, Files, Absent, TornFile
    <3> QED
      BY <2>15, <3>1 DEF Start, VaultData, Torn, InForce
  <2>16. CASE UNCHANGED vaultVars
    BY <2>16 DEF vaultVars, VaultData
  <2> QED
    BY <2>1, <2>2, <2>3, <2>4, <2>5, <2>6, <2>8, <2>9, <2>10, <2>11, <2>12,
       <2>13, <2>14, <2>15, <2>16
    DEF VaultNext, VaultStep
<1> QED
  BY <1>1, <1>2, PTL DEF VaultSpec

(***************************************************************************)
(* One call at a time, and none cut off.  What the files and the memory    *)
(* hold then depends on how far the one call is: until it writes, the      *)
(* vault is as the last call left it, and from there on it holds what is   *)
(* wanted, under the key that is in memory by the end.                     *)
(***************************************************************************)
Effect(c, names) ==
    IF c.op = "save" THEN names \union {c.name}
    ELSE IF c.op = "delete" THEN names \ {c.name}
    ELSE names

KeysAgree == keyFile # Torn /\ fernet = keyFile
VaultHolds(key) == vaultFile = [key |-> key, names |-> wanted]

Midway(t) ==
    LET c == call[t] IN
    /\ up
    /\ c.step \in {"read", "truncate"} =>
            /\ KeysAgree /\ Readable(keyFile)
            /\ wanted = Effect(c, vaultFile.names) /\ router = InForce(vaultFile.names)
    /\ c.step \in {"truncate", "write"} => doc[t] = wanted
    /\ c.step = "assign" => doc[t] = InForce(wanted)
    /\ c.step \in {"write", "build", "assign"} => KeysAgree
    /\ c.step \in {"build", "assign"} => c.op # "rotate" /\ VaultHolds(fernet)
    /\ c.step = "write" /\ c.op = "rotate" => router = InForce(wanted)
    /\ c.step \in {"swap", "truncateKey", "writeKey"} =>
            c.op = "rotate" /\ VaultHolds(rotations + 1) /\ router = InForce(wanted)
    /\ c.step \in {"truncateKey", "writeKey"} => fernet = rotations + 1

AtRest ==
    /\ keyFile # Torn /\ Readable(keyFile)
    /\ vaultFile.names = wanted
    /\ up => fernet = keyFile /\ router = InForce(wanted)

Orderly ==
    ~overlapped /\ ~tornBy =>
        /\ \A t, u \in Busy : t = u
        /\ \A t \in Busy : Midway(t)
        /\ Quiet => AtRest

\* The one call under way takes a step.
LEMMA MidwayStep ==
    ASSUME VaultData, Orderly, ~overlapped, ~tornBy, NEW t \in Threads, VaultStep(t),
           UNCHANGED historyVars,
           call'[t] # Idle => Midway(t)',
           call'[t] = Idle => AtRest',
           \A u \in Threads \ {t} : call'[u] = call[u]
    PROVE  Orderly'
<1>1. t \in Busy
  BY DEF VaultStep, Read, ReadFails, Truncate, Write, Swap, TruncateKey, WriteKey,
         Build, BuildFails, Assign, At, Busy, Idle
<1>2. Busy = {t}
  BY <1>1 DEF Orderly
<1>3. \A u \in Threads \ {t} : call'[u] = Idle
  BY <1>2 DEF Busy
<1>4. Busy' = IF call'[t] = Idle THEN {} ELSE {t}
  BY <1>3 DEF Busy
<1> QED
  BY <1>4 DEF Orderly, Quiet

\* With calls one at a time and none cut off, files and memory agree whenever
\* none is under way (vault.save, delete, rotate_key and _load_key).
LEMMA OrderlyHolds == VaultSpec => []Orderly
<1> USE DEF fileVars, memoryVars, callVars, countVars, historyVars
<1>1. VaultInit => Orderly
  BY DEF VaultInit, Orderly, Busy, Quiet, AtRest, Readable, Absent, Torn, InForce
<1>2. Orderly /\ VaultData /\ VaultFlags /\ [VaultNext]_vaultVars => Orderly'
  <2> SUFFICES ASSUME Orderly, VaultData, VaultFlags, [VaultNext]_vaultVars,
                      ~overlapped', ~tornBy'
               PROVE  Orderly'
    BY DEF Orderly
  <2>1. ASSUME NEW t \in Threads, NEW op \in {"save", "delete", "rotate"}, NEW name,
              Begin(t, op, name)
        PROVE  Orderly'
    <3>1. ~overlapped /\ ~tornBy /\ Busy = {}
      BY <2>1 DEF Begin
    <3>2. AtRest /\ up
      BY <2>1, <3>1 DEF Orderly, Quiet, Begin
    <3>3. /\ call'[t] = [op |-> op, name |-> name, step |-> "read"]
          /\ \A u \in Threads \ {t} : call'[u] = Idle
          /\ UNCHANGED <<vaultFile, keyFile, up, fernet, router>>
      BY <2>1, <3>1 DEF Begin, VaultData, Busy
    <3>4. Busy' = {t}
      BY <3>3 DEF Busy, Idle
    <3>5. wanted' = Effect(call'[t], wanted)
      BY <2>1, <3>3 DEF Begin, Effect
    <3>6. Midway(t)'
      BY <3>2, <3>3, <3>5 DEF Midway, AtRest, KeysAgree, Readable
    <3> QED
      BY <3>4, <3>6 DEF Orderly, Quiet
  <2>2. ASSUME NEW t \in Threads, VaultStep(t)
        PROVE  Orderly'
    <3>1. /\ UNCHANGED historyVars /\ ~overlapped /\ ~tornBy /\ t \in Busy
          /\ call[t] \in Calls
      BY <2>2 DEF VaultStep, Read, ReadFails, Truncate, Write, Swap, TruncateKey,
             WriteKey, Build, BuildFails, Assign, At, Busy, Idle, VaultData
    <3>2. Midway(t) /\ fernet \in Keys /\ Torn \notin Keys /\ rotations + 1 \in Keys
      BY <3>1, CredentialVaultAssumption
         DEF Orderly, VaultData, Keys, Torn, CredentialVaultAssumption
    <3> SUFFICES /\ call'[t] # Idle => Midway(t)'
                 /\ call'[t] = Idle => AtRest'
                 /\ \A u \in Threads \ {t} : call'[u] = call[u]
      BY <2>2, <3>1, MidwayStep
    <3>3. CASE Read(t)
      <4>1. /\ call'[t] = [op |-> call[t].op, name |-> call[t].name, step |-> "truncate"]
            /\ \A u \in Threads \ {t} : call'[u] = call[u]
            /\ call[t].step = "read"
        BY <3>3, GoesOn DEF Read, At, Steps, VaultData
      <4>2. doc'[t] = Effect(call[t], vaultFile.names)
        BY <3>1, <3>3 DEF Read, Effect, VaultData
      <4>3. UNCHANGED <<vaultFile, keyFile, up, fernet, router, rotations, wanted>>
        BY <3>3 DEF Read
      <4> QED
        BY <3>2, <4>1, <4>2, <4>3 DEF Midway, KeysAgree, Readable, Effect, Idle
    <3>4. CASE Truncate(t)
      <4>1. /\ call'[t] = [op |-> call[t].op, name |-> call[t].name, step |-> "write"]
            /\ \A u \in Threads \ {t} : call'[u] = call[u]
            /\ call[t].step = "truncate"
        BY <3>4, GoesOn DEF Truncate, At, Steps, VaultData
      <4>2. UNCHANGED <<doc, keyFile, up, fernet, router, rotations, wanted>>
        BY <3>4 DEF Truncate
      <4> QED
        BY <3>2, <4>1, <4>2 DEF Midway, KeysAgree, Effect, Idle
    <3>5. CASE Write(t)
      <4> DEFINE next == IF call[t].op = "rotate" THEN "swap" ELSE "build"
      <4>1. next \in {"swap", "build"}
        OBVIOUS
      <4>2. /\ call'[t] = [op |-> call[t].op, name |-> call[t].name, step |-> next]
            /\ \A u \in Threads \ {t} : call'[u] = call[u]
            /\ call[t].step = "write"
        BY <3>5, GoesOn DEF Write, At, Steps, VaultData
      <4>3. /\ UNCHANGED <<keyFile, up, fernet, router, rotations, wanted>>
            /\ vaultFile' = [key |-> KeyOf(t), names |-> doc[t]]
        BY <3>5 DEF Write
      <4> QED
        BY <3>2, <4>1, <4>2, <4>3 DEF Midway, KeysAgree, VaultHolds, KeyOf, Idle
    <3>6. CASE Swap(t)
      <4>1. /\ call'[t] = [op |-> call[t].op, name |-> call[t].name, step |-> "truncateKey"]
            /\ \A u \in Threads \ {t} : call'[u] = call[u]
            /\ call[t].step = "swap"
        BY <3>6, GoesOn DEF Swap, At, Steps, VaultData
      <4>2. /\ UNCHANGED <<vaultFile, keyFile, up, router, rotations, wanted>>
            /\ fernet' = KeyOf(t)
        BY <3>6 DEF Swap
      <4> QED
        BY <3>2, <4>1, <4>2 DEF Midway, VaultHolds, KeyOf, Idle
    <3>7. CASE TruncateKey(t)
      <4>1. /\ call'[t] = [op |-> call[t].op, name |-> call[t].name, step |-> "writeKey"]
            /\ \A u \in Threads \ {t} : call'[u] = call[u]
            /\ call[t].step = "truncateKey"
        BY <3>7, GoesOn DEF TruncateKey, At, Steps, VaultData
      <4>2. UNCHANGED <<vaultFile, up, fernet, router, rotations, wanted>>
        BY <3>7 DEF TruncateKey
      <4> QED
        BY <3>2, <4>1, <4>2 DEF Midway, VaultHolds, Idle
    <3>8. CASE WriteKey(t)
      <4>1. /\ call'[t] = Idle /\ call[t].step = "writeKey"
            /\ \A u \in Threads \ {t} : call'[u] = call[u]
        BY <3>8 DEF WriteKey, At, VaultData
      <4>2. /\ UNCHANGED <<vaultFile, up, fernet, router, rotations, wanted>>
            /\ keyFile' = KeyOf(t)
        BY <3>8 DEF WriteKey
      <4> QED
        BY <3>2, <4>1, <4>2 DEF Midway, VaultHolds, KeyOf, AtRest, Readable
    <3>9. CASE Build(t)
      <4>1. /\ call'[t] = [op |-> call[t].op, name |-> call[t].name, step |-> "assign"]
            /\ \A u \in Threads \ {t} : call'[u] = call[u]
            /\ call[t].step = "build"
        BY <3>9, GoesOn DEF Build, At, Steps, VaultData
      <4>2. /\ UNCHANGED <<vaultFile, keyFile, up, fernet, router, rotations, wanted>>
            /\ doc'[t] = InForce(vaultFile.names)
        BY <3>9 DEF Build, VaultData
      <4> QED
        BY <3>2, <4>1, <4>2 DEF Midway, KeysAgree, VaultHolds, Idle
    <3>10. CASE Assign(t)
      <4>1. /\ call'[t] = Idle /\ call[t].step = "assign"
            /\ \A u \in Threads \ {t} : call'[u] = call[u]
        BY <3>10 DEF Assign, At, VaultData
      <4>2. /\ UNCHANGED <<vaultFile, keyFile, up, fernet, rotations, wanted>>
            /\ router' = doc[t]
        BY <3>10 DEF Assign
      <4> QED
        BY <3>2, <4>1, <4>2 DEF Midway, VaultHolds, KeysAgree, AtRest, Readable
    <3>11. ~ReadFails(t)
      <4>1. call[t].step = "read" => Readable(fernet)
        BY <3>2 DEF Midway, KeysAgree
      <4> QED
        BY <4>1 DEF ReadFails, At
    <3>12. ~BuildFails(t)
      <4>1. call[t].step = "build" => VaultHolds(fernet)
        BY <3>2 DEF Midway
      <4>2. VaultHolds(fernet) => Readable(fernet)
        BY DEF VaultHolds, Readable
      <4> QED
        BY <4>1, <4>2 DEF BuildFails, At
    <3> QED
      BY <2>2, <3>3, <3>4, <3>5, <3>6, <3>7, <3>8, <3>9, <3>10, <3>11, <3>12 DEF VaultStep
  <2>3. CASE Crash
    <3>1. /\ ~overlapped /\ ~tornBy /\ Quiet /\ ~up'
          /\ UNCHANGED <<vaultFile, keyFile, wanted>>
      BY <2>3 DEF Crash, Quiet
    <3>2. Busy' = {}
      BY <2>3 DEF Crash, Busy
    <3> QED
      BY <3>1, <3>2 DEF Orderly, Quiet, AtRest, Readable
  <2>4. CASE Start
    <3>1. /\ ~overlapped /\ ~tornBy /\ ~up
          /\ UNCHANGED <<vaultFile, keyFile, wanted, call>>
          /\ fernet' = keyFile /\ router' = InForce(vaultFile.names)
      BY <2>4 DEF Start
    <3>2. Busy = {} /\ Busy' = {}
      BY <3>1 DEF Orderly, Midway, Busy
    <3> QED
      BY <3>1, <3>2 DEF Orderly, Quiet, AtRest, Readable
  <2>5. CASE UNCHANGED vaultVars
    BY <2>5 DEF vaultVars, Orderly, Busy, Quiet, AtRest, Midway, KeysAgree, VaultHolds,
           Readable, Effect
  <2> QED
    BY <2>1, <2>2, <2>3, <2>4, <2>5 DEF VaultNext, Save, Delete, Rotate
<1> QED
  BY <1>1, <1>2, VaultFlagsTyping, VaultDataTyping, PTL DEF VaultSpec

\* Files, keys and calls keep their types, whatever is cut off (vault.py).
THEOREM VaultTyping == VaultSpec => []VaultTypeOK
<1>1. VaultFlags /\ VaultData => VaultTypeOK
  BY DEF VaultFlags, VaultData, VaultTypeOK
<1> QED
  BY <1>1, VaultFlagsTyping, VaultDataTyping, PTL

\* With calls one at a time and none cut off, the key on disk opens the vault
\* and is the key in memory, over any rotations and restarts (vault.rotate_key).
THEOREM KeyAlwaysOpens == VaultSpec => []KeyOpensVault
<1>1. Orderly => KeyOpensVault
  BY DEF Orderly, AtRest, KeyOpensVault
<1> QED
  BY <1>1, OrderlyHolds, PTL

\* The vault then holds what was saved and not deleted since, and the router was
\* built from those of them that a provider reads (providers.build_providers).
THEOREM CredentialsAreInForce == VaultSpec => []CredentialsInForce
<1>1. Orderly => CredentialsInForce
  BY DEF Orderly, AtRest, CredentialsInForce
<1> QED
  BY <1>1, OrderlyHolds, PTL

-----------------------------------------------------------------------------
(***************************************************************************)
(* The market router.  First the order of the candidates.                  *)
(***************************************************************************)


\* The members of a finite set of numbers are ranked without gaps.
LEMMA RanksAreOneToOne ==
    ASSUME NEW n \in Nat, NEW kept \in SUBSET (1..n), NEW m \in 1..Cardinality(kept)
    PROVE  \E k \in kept : Cardinality({j \in kept : j <= k}) = m
<1> DEFINE upTo(k) == {j \in kept : j <= k}
           rank == [k \in kept |-> Cardinality(upTo(k))]
           size == Cardinality(kept)
<1>1. IsFiniteSet(kept) /\ size \in Nat
  <2>1. IsFiniteSet(1..n)
    BY FS_Interval
  <2> QED
    BY <2>1, FS_Subset, FS_CardinalityType
<1>2. ASSUME NEW k \in kept
      PROVE  IsFiniteSet(upTo(k)) /\ Cardinality(upTo(k)) \in 1..size
  <2>1. IsFiniteSet(upTo(k)) /\ Cardinality(upTo(k)) <= size
    BY <1>1, FS_Subset
  <2>2. Cardinality(upTo(k)) \in Nat /\ upTo(k) # {}
    BY <2>1, FS_CardinalityType
  <2>3. Cardinality(upTo(k)) # 0
    BY <2>1, <2>2, FS_EmptySet
  <2> QED
    BY <1>1, <2>1, <2>2, <2>3
<1>3. rank \in [kept -> 1..size]
  BY <1>2
<1>4. ASSUME NEW j \in kept, NEW k \in kept, j < k
      PROVE  rank[j] # rank[k]
  <2>1. \A i \in kept : i \in Nat
    OBVIOUS
  <2>2. upTo(j) \in SUBSET upTo(k) /\ k \in upTo(k) /\ k \notin upTo(j)
    <3>1. \A i \in kept : i <= j => i <= k
      BY <1>4, <2>1
    <3>2. k <= k /\ ~(k <= j)
      BY <1>4, <2>1
    <3> QED
      BY <3>1, <3>2
  <2>3. Cardinality(upTo(j)) # Cardinality(upTo(k))
    BY <1>2, <2>2, FS_Subset
  <2> QED
    BY <2>3
<1>5. \A j, k \in kept : rank[j] = rank[k] => j = k
  <2>1. \A j, k \in kept : j = k \/ j < k \/ k < j
    OBVIOUS
  <2> HIDE DEF rank
  <2> QED
    BY <1>4, <2>1
<1>6. rank \in Injection(kept, 1..size)
  BY <1>3, <1>5 DEF Injection, IsInjective
<1>7. Cardinality(1..size) = size /\ IsFiniteSet(1..size)
  BY <1>1, FS_Interval
<1>8. rank \in Surjection(kept, 1..size)
  <2> HIDE DEF rank
  <2> QED
    BY <1>6, <1>7, FS_Injection
<1>9. \E k \in kept : rank[k] = m
  BY <1>8 DEF Surjection
<1> QED
  BY <1>9

\* The candidates after the first are those of the route but p (get_candles).
LEMMA OthersOfRoute ==
    ASSUME NEW S, NEW route \in Seq(S), NEW p
    PROVE  /\ Others(route, p) \in Seq(S)
           /\ ToSet(Others(route, p)) = ToSet(route) \ {p}
<1> DEFINE n == Len(route)
           kept == {k \in 1..n : route[k] # p}
           Rank(k) == Cardinality({j \in kept : j <= k})
           at(m) == CHOOSE k \in kept : Rank(k) = m
           size == Cardinality(kept)
           others == [m \in 1..size |-> route[at(m)]]
<1>1. n \in Nat /\ kept \in SUBSET (1..n) /\ DOMAIN route = 1..n
  OBVIOUS
<1>2. IsFiniteSet(kept) /\ size \in Nat
  <2>1. IsFiniteSet(1..n)
    BY <1>1, FS_Interval
  <2>2. IsFiniteSet(kept)
    BY <1>1, <2>1, FS_Subset
  <2> QED
    BY <2>2, FS_CardinalityType
<1>3. ASSUME NEW m \in 1..size
      PROVE  at(m) \in kept /\ Rank(at(m)) = m
  <2>1. \E k \in kept : Rank(k) = m
    BY <1>1, RanksAreOneToOne
  <2> QED
    BY <2>1
<1>4. ASSUME NEW k \in kept
      PROVE  Rank(k) \in 1..size /\ at(Rank(k)) = k
  <2>1. IsFiniteSet({j \in kept : j <= k}) /\ Rank(k) <= size
    BY <1>2, FS_Subset
  <2>2. Rank(k) \in Nat /\ k \in {j \in kept : j <= k}
    BY <1>1, <2>1, FS_CardinalityType
  <2>3. Rank(k) # 0
    BY <2>1, <2>2, FS_EmptySet
  <2>4. Rank(k) \in 1..size
    BY <1>2, <2>1, <2>2, <2>3
  <2>5. at(Rank(k)) \in kept /\ Rank(at(Rank(k))) = Rank(k)
    BY <1>3, <2>4
  <2> DEFINE other == at(Rank(k))
             below(j) == {i \in kept : i <= j}
  <2>6. IsFiniteSet(below(other)) /\ IsFiniteSet(below(k))
    BY <1>2, FS_Subset
  <2>7. other \in below(other) /\ k \in below(k)
    BY <1>1, <2>5
  <2>8. \A i \in kept : i \in Nat
    BY <1>1
  <2>9. ~(other < k)
    <3>1. other < k => below(other) \in SUBSET below(k) /\ k \notin below(other)
      <4>1. other < k => \A i \in kept : (i <= other => i <= k) /\ ~(k <= other)
        BY <2>5, <2>8
      <4> QED
        BY <4>1
    <3> QED
      BY <2>5, <2>6, <2>7, <3>1, FS_Subset
  <2>10. ~(k < other)
    <3>1. k < other => below(k) \in SUBSET below(other) /\ other \notin below(k)
      <4>1. k < other => \A i \in kept : (i <= k => i <= other) /\ ~(other <= k)
        BY <2>5, <2>8
      <4> QED
        BY <4>1
    <3> QED
      BY <2>5, <2>6, <2>7, <3>1, FS_Subset
  <2> QED
    BY <1>1, <2>4, <2>5, <2>9, <2>10
<1>5. Others(route, p) = others
  BY DEF Others
<1>6. others \in [1..size -> S] /\ DOMAIN others = 1..size
  <2>1. ASSUME NEW m \in 1..size PROVE route[at(m)] \in S
    <3>1. at(m) \in 1..n
      BY <1>3
    <3> HIDE DEF at
    <3> QED
      BY <1>1, <3>1
  <2> HIDE DEF at, size
  <2> QED
    BY <2>1
<1>7. \A m \in 1..size : others[m] \in ToSet(route) \ {p}
  BY <1>1, <1>3 DEF ToSet
<1>8. \A x \in ToSet(route) \ {p} : \E m \in 1..size : others[m] = x
  BY <1>1, <1>4 DEF ToSet
<1>9. ToSet(others) = ToSet(route) \ {p}
  <2> HIDE DEF others
  <2> QED
    BY <1>6, <1>7, <1>8 DEF ToSet
<1>10. others \in Seq(S)
  <2> HIDE DEF others, size
  <2> QED
    BY <1>2, <1>6
<1> QED
  BY <1>5, <1>9, <1>10

\* A sequence with an element before it.
LEMMA ConsMembers ==
    ASSUME NEW S, NEW q \in Seq(S), NEW x \in S
    PROVE  /\ <<x>> \o q \in Seq(S) /\ <<x>> \o q # <<>>
           /\ ToSet(<<x>> \o q) = {x} \union ToSet(q)
<1>1. <<x>> \o q \in Seq(S) /\ Len(<<x>> \o q) = 1 + Len(q)
  OBVIOUS
<1>2. \A i \in 1..(1 + Len(q)) : (<<x>> \o q)[i] = IF i = 1 THEN x ELSE q[i - 1]
  OBVIOUS
<1>3. \A i \in 1..Len(q) : (<<x>> \o q)[i + 1] = q[i]
  BY <1>2
<1>4. (<<x>> \o q)[1] = x /\ Len(q) \in Nat
  BY <1>2
<1>5. DOMAIN q = 1..Len(q) /\ DOMAIN (<<x>> \o q) = 1..(1 + Len(q))
  BY <1>1
<1>6. ToSet(<<x>> \o q) \subseteq {x} \union ToSet(q)
  <2>1. ASSUME NEW i \in 1..(1 + Len(q))
        PROVE  (<<x>> \o q)[i] = x \/ \E j \in 1..Len(q) : (<<x>> \o q)[i] = q[j]
    <3>1. i = 1 \/ i - 1 \in 1..Len(q)
      BY <1>4
    <3> QED
      BY <1>2, <3>1
  <2> QED
    BY <1>5, <2>1 DEF ToSet
<1>7. {x} \union ToSet(q) \subseteq ToSet(<<x>> \o q)
  <2>1. \A i \in 1..Len(q) : i + 1 \in 1..(1 + Len(q))
    BY <1>4
  <2>2. 1 \in 1..(1 + Len(q))
    BY <1>4
  <2>3. \A i \in 1..Len(q) : \E j \in 1..(1 + Len(q)) : q[i] = (<<x>> \o q)[j]
    BY <1>3, <2>1
  <2>4. \E j \in 1..(1 + Len(q)) : x = (<<x>> \o q)[j]
    BY <1>4, <2>2
  <2> DEFINE all == <<x>> \o q
  <2> HIDE DEF all
  <2> QED
    BY <1>5, <2>3, <2>4 DEF ToSet
<1>8. <<x>> \o q # <<>>
  BY <1>1, <1>4, EmptySeq
<1> QED
  BY <1>1, <1>6, <1>7, <1>8

\* What is left of a sequence after its head.
LEMMA TailMembers ==
    ASSUME NEW S, NEW q \in Seq(S), q # <<>>
    PROVE  /\ Tail(q) \in Seq(S) /\ {Head(q)} \union ToSet(Tail(q)) = ToSet(q)
           /\ Len(q) = 1 => Tail(q) = <<>>
           /\ Len(q) > 1 => Tail(q) # <<>>
           /\ Len(q) = 1 \/ Len(q) > 1
<1>1. /\ Tail(q) \in Seq(S) /\ Len(Tail(q)) = Len(q) - 1
      /\ \A i \in 1..(Len(q) - 1) : Tail(q)[i] = q[i + 1]
      /\ Head(q) = q[1] /\ Len(q) \in Nat \ {0}
  BY HeadTailProperties, EmptySeq
<1>2. DOMAIN q = 1..Len(q) /\ DOMAIN Tail(q) = 1..(Len(q) - 1)
  BY <1>1
<1>3. \A i \in 1..Len(q) : i = 1 \/ (i - 1 \in 1..(Len(q) - 1) /\ (i - 1) + 1 = i)
  BY <1>1
<1>4. \A i \in 1..(Len(q) - 1) : i + 1 \in 1..Len(q)
  BY <1>1
<1>5. ToSet(q) \subseteq {Head(q)} \union ToSet(Tail(q))
  <2>1. ASSUME NEW i \in 1..Len(q)
        PROVE  q[i] = Head(q) \/ \E j \in 1..(Len(q) - 1) : q[i] = Tail(q)[j]
    BY <1>1, <1>3
  <2> QED
    BY <1>2, <2>1 DEF ToSet
<1>6. {Head(q)} \union ToSet(Tail(q)) \subseteq ToSet(q)
  <2>1. \A i \in 1..(Len(q) - 1) : \E j \in 1..Len(q) : Tail(q)[i] = q[j]
    BY <1>1, <1>4
  <2>2. 1 \in 1..Len(q)
    BY <1>1
  <2> QED
    BY <1>1, <1>2, <2>1, <2>2 DEF ToSet
<1>7. Tail(q) = <<>> <=> Len(Tail(q)) = 0
  BY <1>1, EmptySeq
<1>8. (Len(q) = 1 => Len(Tail(q)) = 0) /\ (Len(q) > 1 => Len(Tail(q)) # 0)
  BY <1>1
<1>9. Len(q) = 1 \/ Len(q) > 1
  BY <1>1
<1> QED
  BY <1>1, <1>5, <1>6, <1>7, <1>8, <1>9

\* What is picked is a provider of the route (MarketRouter._pick).
LEMMA PickIsOfRoute ==
    ASSUME NEW rt, NEW class \in Classes
    PROVE  Pick(rt, class) \in ToSet(Routes[class])
<1> DEFINE route == Routes[class]
           others == {k \in 2..Len(route) : rt.health[route[k]] # "OFFLINE"}
<1>1. route # <<>> /\ Len(route) \in Nat \ {0} /\ DOMAIN route = 1..Len(route)
  BY MarketDataAssumption DEF MarketDataAssumption
<1>2. others # {} => \E k \in others : \A j \in others : k <= j
  <2>1. others \in SUBSET Nat
    BY <1>1
  <2> HIDE DEF others
  <2> QED
    BY <2>1, SmallestExists
<1>3. Pick(rt, class) = route[1] \/ \E k \in others : Pick(rt, class) = route[k]
  BY <1>2 DEF Pick
<1> QED
  BY <1>1, <1>3 DEF ToSet

\* No adapter's result is without a code.
Known == DOMAIN Lacks \union {"binance", "coingecko"}

\* A status the adapters test ends in a code (base.check_status).
LEMMA CheckedHasCode ==
    ASSUME NEW a, NEW h, NEW body, body.code # None
    PROVE  Checked(a, h, body).code # None
BY DEF Checked, Ends, Http, None

\* An answer that is parsed ends in a code, or keeps the one it has.
LEMMA ParsedHasCode ==
    ASSUME NEW get, NEW a, NEW nothing, NEW malformed,
           get.code # None, nothing # None, malformed # None
    PROVE  Parsed(get, a, nothing, malformed).code # None
BY DEF Parsed, Ends, None

\* A request for candles ends in a code at each of the providers.
LEMMA CandlesHaveCode ==
    ASSUME NEW s, NEW a, Asked(s) \in Known
    PROVE  CandlesOf(s, a).code # None
<1> DEFINE h == HealthOf(s)
           tf == request[s].tf
<1>1. \A code, x : Ends(code, x).code = code
  BY DEF Ends
<1>2. \A x : Body(x).code # None /\ Unauthorised.code # None
  BY <1>1 DEF Body, Unauthorised, None
<1>3. \A p, x, candles : candles.code # None => InTime(p, tf, x, candles).code # None
  BY <1>1 DEF InTime, None
<1>4. /\ AlpacaGet(a, h).code # None /\ DhanGet(a, h).code # None
      /\ UpstoxGet(a, h).code # None /\ TwelveDataGet(a, h).code # None
      /\ AlphaVantageGet(a, h).code # None /\ CoinGeckoGet(a, h).code # None
      /\ AngelGet(a, h).code # None
  BY <1>1, <1>2, CheckedHasCode
  DEF AlpacaGet, DhanGet, UpstoxGet, TwelveDataGet, AlphaVantageGet, CoinGeckoGet, AngelGet, None
<1>5. /\ AlpacaCandles(a, h, tf).code # None
      /\ DhanCandles(a, h, tf).code # None
      /\ UpstoxCandles(a, h, tf).code # None
      /\ AngelCandles(a, h, tf).code # None
      /\ TwelveDataCandles(a, h, tf).code # None
      /\ CoinGeckoCandles(a, h).code # None
      /\ BinanceCandles(a, h).code # None
  BY <1>1, <1>3, <1>4, ParsedHasCode
  DEF AlpacaCandles, DhanCandles, UpstoxCandles, AngelCandles, TwelveDataCandles,
      CoinGeckoCandles, BinanceCandles, None
<1>6. AlphaVantageCandles(request[s].class, a, h, tf).code # None
  BY <1>1, <1>3, <1>4, ParsedHasCode DEF AlphaVantageCandles, None
<1> QED
  BY <1>1, <1>5, <1>6 DEF CandlesOf, Known, Lacks, None

\* The login of Angel One ends in a code.
LEMMA LoginHasCode ==
    ASSUME NEW a, NEW h
    PROVE  AngelLogin(a, h).code # None
<1>1. \A code, x : Ends(code, x).code = code
  BY DEF Ends
<1>2. \A x : Body(x).code # None /\ Unauthorised.code # None
  BY <1>1 DEF Body, Unauthorised, None
<1> QED
  BY <1>1, <1>2, CheckedHasCode DEF AngelLogin, None

-----------------------------------------------------------------------------
(***************************************************************************)
(* What a thread serves is a record throughout, and what it does concerns  *)
(* its own request.                                                        *)
(***************************************************************************)
Fields == DOMAIN NoRequest

Served == request = [s \in Slots |-> request[s]] /\ \A s \in Slots : DOMAIN request[s] = Fields

\* Requests are records of the same fields, in every state.
LEMMA ServedHolds == MarketSpec => []Served
<1>1. MarketInit => Served
  BY DEF MarketInit, Served, Fields
<1>2. Served /\ [MarketNext]_marketVars => Served'
  <2> SUFFICES ASSUME Served, [MarketNext]_marketVars
               PROVE  Served'
    OBVIOUS
  <2>1. ASSUME NEW s \in Slots, NEW r, DOMAIN r = Fields, request' = [request EXCEPT ![s] = r]
        PROVE  Served'
    BY <2>1 DEF Served
  <2>2. ASSUME NEW s \in Slots, Ask(s)
        PROVE  Served'
    BY <2>1, <2>2 DEF Ask, AskQuote, AskCandles, AskSearch, BeginRequest, Fields, NoRequest
  <2>3. ASSUME NEW s \in Slots, Work(s)
        PROVE  Served'
    <3>1. ASSUME NEW out, Advance(s, out)
          PROVE  Served'
      BY <3>1 DEF Advance, Served, Fields, NoRequest
    <3>2. ASSUME NEW a, Retry(s, a)
          PROVE  Served'
      BY <3>2 DEF Retry, Served, Fields, NoRequest
    <3>3. CASE Skip(s)
      BY <3>3 DEF Skip, Served, Fields, NoRequest
    <3>4. CASE Answered(s)
      BY <2>1, <3>4 DEF Answered, Fields
    <3>5. ASSUME NEW a, Reply(s, a)
          PROVE  Served'
      BY <3>1, <3>5 DEF Reply
    <3>6. ASSUME NEW a, Login(s, a)
          PROVE  Served'
      <4>1. CASE request' = [request EXCEPT ![s].tries = 0]
        BY <4>1 DEF Served, Fields, NoRequest
      <4> QED
        BY <3>1, <3>6, <4>1 DEF Login
    <3>7. ASSUME NEW a, LoadMaster(s, a)
          PROVE  Served'
      <4>1. CASE request' = [request EXCEPT ![s].tries = 0]
        BY <4>1 DEF Served, Fields, NoRequest
      <4>2. CASE request' = [request EXCEPT
                          ![s].code = Ending(s, "SYMBOL_NOT_FOUND"),
                          ![s].tried = IF request[s].kind = "candles" THEN @ \union {"upstox"} ELSE @,
                          ![s].todo = Tail(@),
                          ![s].tries = 0]
        BY <4>2 DEF Served, Fields, NoRequest
      <4> QED
        BY <3>7, <4>1, <4>2 DEF LoadMaster
    <3> QED
      BY <2>3, <3>2, <3>3, <3>4, <3>5, <3>6, <3>7 DEF Work
  <2>4. CASE Rebuild \/ UNCHANGED marketVars
    BY <2>4 DEF Rebuild, marketVars, Served
  <2> QED
    BY <2>2, <2>3, <2>4 DEF MarketNext
<1> QED
  BY <1>1, <1>2, PTL DEF MarketSpec

\* One candidate of a request is done with, or the request stays as it is but for
\* the attempts, or is answered; a search goes on without an invariant.
SameTask(s) ==
    /\ request'[s].kind = request[s].kind
    /\ request'[s].class = request[s].class
    /\ request'[s].on = request[s].on
    /\ request'[s].picked = request[s].picked

SameCandidates(s) ==
    /\ request'[s].todo = request[s].todo
    /\ request'[s].tried = request[s].tried
    /\ request'[s].code = request[s].code

NextCandidate(s) ==
    /\ request'[s].todo = Tail(request[s].todo)
    /\ request[s].kind = "candles" => request'[s].tried = request[s].tried \union {Asked(s)}
    /\ \E code : code # None /\ request'[s].code = Ending(s, code)

\* What an answer makes of a request: its end, or the next provider.
LEMMA AdvanceIs ==
    ASSUME Served, NEW s \in Slots, NEW out, out.code # None, Advance(s, out)
    PROVE  SameTask(s) /\ NextCandidate(s)
<1>1. /\ SameTask(s)
      /\ request'[s].todo = Tail(request[s].todo)
      /\ request[s].kind = "candles" => request'[s].tried = request[s].tried \union {Asked(s)}
      /\ request'[s].code = Ending(s, out.code)
  BY DEF Advance, SameTask, Served, Fields, NoRequest
<1> QED
  BY <1>1 DEF NextCandidate

\* Work on a request leaves the other requests, and its own kind, class, router
\* and choice.
LEMMA WorkKeepsTask ==
    ASSUME Served, NEW s \in Slots, Work(s)
    PROVE  /\ \A u \in Slots \ {s} : request'[u] = request[u]
           /\ request'[s] = NoRequest \/ SameTask(s)
<1>1. \A u \in Slots \ {s} : request'[u] = request[u]
  <2>1. ASSUME NEW out, Advance(s, out)
        PROVE  \A u \in Slots \ {s} : request'[u] = request[u]
    BY <2>1 DEF Advance, Served
  <2>2. CASE \E a \in Answers : Reply(s, a)
    BY <2>1, <2>2 DEF Reply
  <2>3. CASE \E a \in Answers : Login(s, a)
    BY <2>1, <2>3 DEF Login, Served
  <2>4. CASE \E a \in Answers : LoadMaster(s, a)
    BY <2>4 DEF LoadMaster, Served
  <2> QED
    BY <2>2, <2>3, <2>4 DEF Work, Retry, Skip, Answered, Served
<1>2. ASSUME NEW out, Advance(s, out)
      PROVE  SameTask(s)
  BY <1>2 DEF Advance, SameTask, Served, Fields, NoRequest
<1>3. request' = [request EXCEPT ![s].tries = 0] => SameTask(s)
  BY DEF SameTask, Served, Fields, NoRequest
<1>4. CASE \E a \in Answers : Retry(s, a)
  BY <1>1, <1>4 DEF Retry, SameTask, Served, Fields, NoRequest
<1>5. CASE \E a \in Answers : Reply(s, a) \/ Login(s, a)
  BY <1>1, <1>2, <1>3, <1>5 DEF Reply, Login
<1>6. CASE \E a \in Answers : LoadMaster(s, a)
  <2>1. CASE request' = [request EXCEPT
                          ![s].code = Ending(s, "SYMBOL_NOT_FOUND"),
                          ![s].tried = IF request[s].kind = "candles" THEN @ \union {"upstox"} ELSE @,
                          ![s].todo = Tail(@),
                          ![s].tries = 0]
    BY <1>1, <2>1 DEF SameTask, Served, Fields, NoRequest
  <2> QED
    BY <1>1, <1>3, <1>6, <2>1 DEF LoadMaster
<1>7. CASE Skip(s)
  BY <1>1, <1>7 DEF Skip, SameTask, Served, Fields, NoRequest
<1>8. CASE Answered(s)
  BY <1>1, <1>8 DEF Answered, Served
<1> QED
  BY <1>4, <1>5, <1>6, <1>7, <1>8 DEF Work

\* What work does to the candidates of its request.
LEMMA WorkIs ==
    ASSUME Served, NEW s \in Slots, Work(s),
           request[s].kind = "candles" /\ Active(s) => Asked(s) \in Known
    PROVE  /\ \A u \in Slots \ {s} : request'[u] = request[u]
           /\ \/ request'[s] = NoRequest
              \/ SameTask(s) /\ SameCandidates(s)
              \/ SameTask(s) /\ Active(s) /\ request[s].kind = "candles" /\ NextCandidate(s)
              \/ SameTask(s) /\ request[s].kind # "candles"
<1>1. \A u \in Slots \ {s} : request'[u] = request[u]
  BY WorkKeepsTask
<1>2. ASSUME NEW a, Retry(s, a)
      PROVE  SameTask(s) /\ SameCandidates(s)
  BY <1>2 DEF Retry, SameTask, SameCandidates, Served, Fields, NoRequest
<1>3. ASSUME Skip(s)
      PROVE  SameTask(s) /\ request[s].kind # "candles"
  <2>1. request[s].kind = "search"
    BY <1>3 DEF Skip, Skips
  <2> QED
    BY <1>3, <2>1 DEF Skip, SameTask, Served, Fields, NoRequest
<1>4. ASSUME Answered(s)
      PROVE  request'[s] = NoRequest
  BY <1>4 DEF Answered, Served
<1>5. ASSUME NEW out, Advance(s, out)
      PROVE  SameTask(s)
  BY <1>5 DEF Advance, SameTask, Served, Fields, NoRequest
<1>6. ASSUME NEW a \in Answers, Reply(s, a)
      PROVE  SameTask(s) /\ Active(s) /\ (request[s].kind = "candles" => NextCandidate(s))
  <2>1. Active(s) /\ Advance(s, Outcome(s, a))
    BY <1>6 DEF Reply
  <2>2. request[s].kind = "candles" => Outcome(s, a).code # None
    BY <2>1, CandlesHaveCode DEF Outcome
  <2> QED
    BY <1>5, <2>1, <2>2, AdvanceIs
<1>7. ASSUME NEW a \in Answers, Login(s, a)
      PROVE  /\ SameTask(s) /\ Active(s)
             /\ SameCandidates(s) \/ NextCandidate(s)
  <2>1. CASE request' = [request EXCEPT ![s].tries = 0]
    BY <1>7, <2>1 DEF Login, SameTask, SameCandidates, Served, Fields, NoRequest
  <2>2. CASE Advance(s, AngelLogin(a, HealthOf(s)))
    BY <1>7, <2>2, LoginHasCode, AdvanceIs DEF Login
  <2> QED
    BY <1>7, <2>1, <2>2 DEF Login
<1>8. ASSUME NEW a \in Answers, LoadMaster(s, a)
      PROVE  /\ SameTask(s) /\ Active(s)
             /\ SameCandidates(s) \/ NextCandidate(s)
  <2>1. CASE request' = [request EXCEPT ![s].tries = 0]
    <3>1. SameTask(s) /\ SameCandidates(s)
      BY <2>1 DEF SameTask, SameCandidates, Served, Fields, NoRequest
    <3> QED
      BY <1>8, <3>1 DEF LoadMaster
  <2>2. CASE request' = [request EXCEPT
                          ![s].code = Ending(s, "SYMBOL_NOT_FOUND"),
                          ![s].tried = IF request[s].kind = "candles" THEN @ \union {"upstox"} ELSE @,
                          ![s].todo = Tail(@),
                          ![s].tries = 0]
    <3>1. /\ SameTask(s)
          /\ request'[s].todo = Tail(request[s].todo)
          /\ request[s].kind = "candles" => request'[s].tried = request[s].tried \union {"upstox"}
          /\ request'[s].code = Ending(s, "SYMBOL_NOT_FOUND")
      BY <2>2 DEF SameTask, Served, Fields, NoRequest
    <3>2. Active(s) /\ Asked(s) = "upstox"
      BY <1>8 DEF LoadMaster, LoadsMaster
    <3> QED
      BY <3>1, <3>2 DEF NextCandidate, None
  <2> QED
    BY <1>8, <2>1, <2>2 DEF LoadMaster
<1>9. Work(s) => \/ \E a \in Answers : Retry(s, a) \/ Reply(s, a) \/ Login(s, a) \/ LoadMaster(s, a)
                 \/ Skip(s) \/ Answered(s)
  BY DEF Work
<1> QED
  BY <1>1, <1>2, <1>3, <1>4, <1>6, <1>7, <1>8, <1>9

(***************************************************************************)
(* The providers a candles request has tried and those it has still to ask *)
(* are the route, and it has someone to ask until it has its code.         *)
(***************************************************************************)
CandidatesOf(s) ==
    LET r == request[s] IN
    r.kind = "candles" =>
        /\ r.class \in Classes
        /\ r.todo \in Seq(ToSet(Routes[r.class]))
        /\ r.tried \union ToSet(r.todo) = ToSet(Routes[r.class])
        /\ r.code = None => r.todo # <<>>
        /\ r.code \notin {None, "DATA", "EXCEPTION"} => r.todo = <<>>

\* The providers asked and those to be asked are the route of the request.
LEMMA CandidatesHold == MarketSpec => [](\A s \in Slots : CandidatesOf(s))
<1>1. MarketInit => \A s \in Slots : CandidatesOf(s)
  BY DEF MarketInit, CandidatesOf, NoRequest, None
<1>2. Served /\ (\A s \in Slots : CandidatesOf(s)) /\ [MarketNext]_marketVars
        => (\A s \in Slots : CandidatesOf(s))'
  <2> SUFFICES ASSUME Served, \A s \in Slots : CandidatesOf(s), [MarketNext]_marketVars
               PROVE  \A s \in Slots : CandidatesOf(s)'
    OBVIOUS
  <2>1. ASSUME NEW s \in Slots, \A u \in Slots \ {s} : request'[u] = request[u], CandidatesOf(s)'
        PROVE  \A u \in Slots : CandidatesOf(u)'
    BY <2>1 DEF CandidatesOf
  <2>2. ASSUME NEW s \in Slots, NEW class \in Classes,
               AskQuote(s, class)
        PROVE  \A u \in Slots : CandidatesOf(u)'
    <3>1. /\ \A u \in Slots \ {s} : request'[u] = request[u]
          /\ request'[s].kind = "quote"
      BY <2>2 DEF AskQuote, BeginRequest, Served, NoRequest
    <3> QED
      BY <2>1, <3>1 DEF CandidatesOf
  <2>3. ASSUME NEW s \in Slots, AskSearch(s)
        PROVE  \A u \in Slots : CandidatesOf(u)'
    <3>1. /\ \A u \in Slots \ {s} : request'[u] = request[u]
          /\ request'[s].kind = "search"
      BY <2>3 DEF AskSearch, BeginRequest, Served, NoRequest
    <3> QED
      BY <2>1, <3>1 DEF CandidatesOf
  <2>4. ASSUME NEW s \in Slots, NEW class \in Classes, NEW tf \in Timeframes,
               AskCandles(s, class, tf)
        PROVE  \A u \in Slots : CandidatesOf(u)'
    <3> DEFINE p == Pick(routers[Len(routers)], class)
               route == Routes[class]
               candidates == <<p>> \o Others(route, p)
    <3>1. /\ \A u \in Slots \ {s} : request'[u] = request[u]
          /\ request'[s].class = class /\ request'[s].todo = candidates
          /\ request'[s].tried = {} /\ request'[s].code = None
      BY <2>4 DEF AskCandles, BeginRequest, Served, NoRequest
    <3>2. route \in Seq(ToSet(route)) /\ p \in ToSet(route)
      BY PickIsOfRoute, MarketDataAssumption DEF MarketDataAssumption, ToSet
    <3>3. Others(route, p) \in Seq(ToSet(route)) /\ ToSet(Others(route, p)) = ToSet(route) \ {p}
      BY <3>2, OthersOfRoute
    <3> HIDE DEF p, route
    <3>4. /\ candidates \in Seq(ToSet(route)) /\ candidates # <<>>
          /\ ToSet(candidates) = {p} \union ToSet(Others(route, p))
      BY <3>2, <3>3, ConsMembers
    <3>5. ToSet(candidates) = ToSet(route)
      BY <3>2, <3>3, <3>4
    <3> HIDE DEF candidates
    <3> QED
      BY <2>1, <3>1, <3>4, <3>5 DEF CandidatesOf, route
  <2>5. ASSUME NEW s \in Slots, Work(s)
        PROVE  \A u \in Slots : CandidatesOf(u)'
    <3> DEFINE r == request[s]
               route == ToSet(Routes[r.class])
    <3>1. r.kind = "candles" /\ Active(s) => r.todo \in Seq(route) /\ r.todo # <<>>
      BY DEF CandidatesOf, Active
    <3>2. r.kind = "candles" /\ Active(s) => Asked(s) \in Known
      <4>1. r.kind = "candles" => Routes[r.class] \in Seq(Known)
        BY MarketDataAssumption DEF MarketDataAssumption, CandidatesOf, Known
      <4>2. r.kind = "candles" => route \subseteq Known
        BY <4>1 DEF ToSet
      <4> QED
        BY <3>1, <4>2 DEF Asked
    <3>3. /\ \A u \in Slots \ {s} : request'[u] = request[u]
          /\ \/ request'[s] = NoRequest
             \/ SameTask(s) /\ SameCandidates(s)
             \/ SameTask(s) /\ Active(s) /\ r.kind = "candles" /\ NextCandidate(s)
             \/ SameTask(s) /\ r.kind # "candles"
      BY <2>5, <3>2, WorkIs
    <3>4. CASE request'[s] = NoRequest
      BY <2>1, <3>3, <3>4 DEF CandidatesOf, NoRequest, None
    <3>5. CASE SameTask(s) /\ SameCandidates(s)
      BY <2>1, <3>3, <3>5 DEF CandidatesOf, SameTask, SameCandidates
    <3>6. CASE SameTask(s) /\ r.kind # "candles"
      BY <2>1, <3>3, <3>6 DEF CandidatesOf, SameTask
    <3>7. CASE SameTask(s) /\ Active(s) /\ r.kind = "candles" /\ NextCandidate(s)
      <4>1. /\ r.class \in Classes
            /\ r.todo \in Seq(route) /\ r.todo # <<>>
            /\ r.tried \union ToSet(r.todo) = route
        BY <3>1, <3>7 DEF CandidatesOf
      <4>2. /\ Tail(r.todo) \in Seq(route)
            /\ {Asked(s)} \union ToSet(Tail(r.todo)) = ToSet(r.todo)
            /\ Len(r.todo) = 1 => Tail(r.todo) = <<>>
            /\ Len(r.todo) > 1 => Tail(r.todo) # <<>>
            /\ Len(r.todo) = 1 \/ Len(r.todo) > 1
        BY <4>1, TailMembers DEF Asked
      <4>3. PICK code : code # None /\ request'[s].code = Ending(s, code)
        BY <3>7 DEF NextCandidate
      <4>4. /\ request'[s].code = None => Len(r.todo) > 1
            /\ request'[s].code \notin {None, "DATA", "EXCEPTION"} => ~(Len(r.todo) > 1)
        BY <3>7, <4>3 DEF Ending, None
      <4>5. /\ request'[s].class = r.class
            /\ request'[s].todo = Tail(r.todo)
            /\ request'[s].tried = r.tried \union {Asked(s)}
        BY <3>7 DEF SameTask, NextCandidate
      <4>6. CandidatesOf(s)'
        <5>1. request'[s].tried \union ToSet(request'[s].todo) = route
          BY <4>1, <4>2, <4>5
        <5> QED
          BY <4>1, <4>2, <4>4, <4>5, <5>1 DEF CandidatesOf
      <4> QED
        BY <2>1, <3>3, <4>6
    <3> QED
      BY <3>3, <3>4, <3>5, <3>6, <3>7
  <2>6. CASE Rebuild \/ UNCHANGED marketVars
    BY <2>6 DEF Rebuild, marketVars, CandidatesOf
  <2> QED
    BY <2>2, <2>3, <2>4, <2>5, <2>6 DEF MarketNext, Ask
<1> QED
  BY <1>1, <1>2, ServedHolds, PTL DEF MarketSpec

\* Candles are refused only after every provider of the route was asked, unless
\* a foreign exception ends the request (MarketRouter.get_candles).
THEOREM RefusedByAll == MarketSpec => []GaveUpOnAll
<1>1. (\A s \in Slots : CandidatesOf(s)) => GaveUpOnAll
  <2>1. ToSet(<<>>) = {}
    BY DEF ToSet
  <2>2. ASSUME NEW s \in Slots, CandidatesOf(s), request[s].kind = "candles",
               request[s].code \notin {None, "DATA", "EXCEPTION"}
        PROVE  request[s].tried = ToSet(Routes[request[s].class])
    <3>1. request[s].todo = <<>>
      BY <2>2 DEF CandidatesOf
    <3>2. request[s].tried \union ToSet(request[s].todo) = ToSet(Routes[request[s].class])
      BY <2>2 DEF CandidatesOf
    <3> QED
      BY <2>1, <3>1, <3>2
  <2> QED
    BY <2>2 DEF GaveUpOnAll
<1> QED
  BY <1>1, CandidatesHold, PTL

-----------------------------------------------------------------------------
(***************************************************************************)
(* The routers.  Each is kept for ever, a record of the same fields; what  *)
(* a request writes in one is of no matter here.                           *)
(***************************************************************************)
RouterFields == DOMAIN NewRouter

Built ==
    /\ Len(routers) \in Nat \ {0}
    /\ routers \in Seq({routers[g] : g \in 1..Len(routers)})
    /\ \A g \in 1..Len(routers) : DOMAIN routers[g] = RouterFields

\* An action that writes in one router.
LEMMA OneRouterChanges ==
    ASSUME Built, NEW g, NEW rt,
           routers' = [routers EXCEPT ![g] = rt],
           g \in 1..Len(routers) => DOMAIN rt = RouterFields
    PROVE  Built'
<1>1. DOMAIN routers' = 1..Len(routers) /\ DOMAIN routers = 1..Len(routers) /\ Len(routers) \in Nat
  BY DEF Built
<1>2. \A x \in 1..Len(routers) : routers'[x] = IF x = g THEN rt ELSE routers[x]
  BY <1>1
<1>3. routers' \in Seq({routers'[x] : x \in 1..Len(routers)}) /\ Len(routers') = Len(routers)
  <2> DEFINE all == {routers'[x] : x \in 1..Len(routers)}
  <2>1. routers' \in [1..Len(routers) -> all]
    BY <1>1
  <2> HIDE DEF all
  <2>2. \A n \in Nat : \A S : \A f \in [1..n -> S] : f \in Seq(S) /\ Len(f) = n
    OBVIOUS
  <2>3. routers' \in Seq(all) /\ Len(routers') = Len(routers)
    BY <1>1, <2>1, <2>2
  <2> QED
    BY <2>3 DEF all
<1>4. \A x \in 1..Len(routers) : DOMAIN routers'[x] = RouterFields
  BY <1>2 DEF Built
<1> QED
  BY <1>1, <1>3, <1>4 DEF Built

\* Every step leaves a sequence of routers.
LEMMA RoutersKept ==
    ASSUME Built, [MarketNext]_marketVars
    PROVE  Built'
<1>1. UNCHANGED routers => Built'
  BY DEF Built
<1>2. ASSUME NEW s \in Slots, NEW out, Recorded(s, out)
      PROVE  Built'
  <2> DEFINE g == request[s].on
             health == [routers[g].health EXCEPT ![Asked(s)] = out.health]
             rt == [routers[g] EXCEPT !.health = health]
  <2>1. routers' = [routers EXCEPT ![g] = rt]
    BY <1>2 DEF Recorded
  <2>2. g \in 1..Len(routers) => DOMAIN rt = RouterFields
    BY DEF Built, RouterFields, NewRouter
  <2> QED
    BY <2>1, <2>2, OneRouterChanges
<1>3. ASSUME NEW s \in Slots, NEW a, Login(s, a)
      PROVE  Built'
  <2> DEFINE g == request[s].on
             health == [routers[g].health EXCEPT !["angel"] = "READY"]
             rt == [routers[g] EXCEPT !.session = TRUE, !.health = health]
  <2>1. CASE routers' = [routers EXCEPT ![g].session = TRUE, ![g].health["angel"] = "READY"]
    <3>1. routers' = [routers EXCEPT ![g] = rt]
      BY <2>1
    <3>2. g \in 1..Len(routers) => DOMAIN rt = RouterFields
      BY DEF Built, RouterFields, NewRouter
    <3> QED
      BY <3>1, <3>2, OneRouterChanges
  <2> QED
    BY <1>2, <1>3, <2>1 DEF Login
<1>4. ASSUME NEW s \in Slots, NEW a, LoadMaster(s, a)
      PROVE  Built'
  <2> DEFINE g == request[s].on
             x == Segment(request[s].class)
  <2>1. PICK list, fresh : routers' = [routers EXCEPT ![g].master[x] = list, ![g].fresh = fresh]
    BY <1>4 DEF LoadMaster
  <2> DEFINE master == [routers[g].master EXCEPT ![x] = list]
             rt == [routers[g] EXCEPT !.master = master, !.fresh = fresh]
  <2>2. routers' = [routers EXCEPT ![g] = rt]
    BY <2>1
  <2>3. g \in 1..Len(routers) => DOMAIN rt = RouterFields
    BY DEF Built, RouterFields, NewRouter
  <2> QED
    BY <2>2, <2>3, OneRouterChanges
<1>5. CASE Rebuild
  <2> DEFINE old == {routers[g] : g \in 1..Len(routers)}
             all == old \union {NewRouter}
  <2>1. routers \in Seq(all) /\ Len(routers) \in Nat
    BY SeqMonotonic DEF Built
  <2>2. routers' = Append(routers, NewRouter)
    BY <1>5 DEF Rebuild
  <2> HIDE DEF old, all
  <2>3. NewRouter \in all
    BY DEF all
  <2>4. /\ routers' \in Seq(all) /\ Len(routers') = Len(routers) + 1
        /\ \A g \in 1..Len(routers) : routers'[g] = routers[g]
        /\ routers'[Len(routers) + 1] = NewRouter
    BY <2>1, <2>2, <2>3, AppendProperties
  <2>5. routers' \in Seq({routers'[g] : g \in 1..Len(routers')})
    <3>1. Range(routers') = {routers'[g] : g \in 1..Len(routers')} /\ routers' \in Seq(Range(routers'))
      BY <2>4, RangeEquality, SeqOfRange
    <3> QED
      BY <3>1
  <2>6. \A g \in 1..Len(routers') : g \in 1..Len(routers) \/ g = Len(routers) + 1
    BY <2>1, <2>4
  <2>7. Len(routers') \in Nat \ {0}
    BY <2>1, <2>4
  <2>8. \A g \in 1..Len(routers') : DOMAIN routers'[g] = RouterFields
    BY <2>4, <2>6 DEF Built, RouterFields
  <2> QED
    BY <2>5, <2>7, <2>8 DEF Built
<1>6. ASSUME NEW s \in Slots, Ask(s)
      PROVE  Built'
  BY <1>1, <1>6 DEF Ask, AskQuote, AskCandles, AskSearch
<1>7. ASSUME NEW s \in Slots, Work(s)
      PROVE  Built'
  BY <1>1, <1>2, <1>3, <1>4, <1>7 DEF Work, Retry, Reply, Skip, Answered
<1> QED
  BY <1>1, <1>5, <1>6, <1>7 DEF MarketNext, marketVars

\* Routers are records of the same fields, in every state.
LEMMA BuiltHolds == MarketSpec => []Built
<1>1. MarketInit => Built
  BY DEF MarketInit, Built, RouterFields
<1>2. Built /\ [MarketNext]_marketVars => Built'
  BY RoutersKept
<1> QED
  BY <1>1, <1>2, PTL DEF MarketSpec

-----------------------------------------------------------------------------
(***************************************************************************)
(* The health of the providers.  Five adapters leave behind the state they *)
(* were in, or a worse one.                                                *)
(***************************************************************************)
Unready == {"alpaca", "dhan", "upstox", "twelve_data", "alpha_vantage"}

\* Neither the test of a status nor the reading of a body makes a provider READY.
LEMMA CheckedKeepsHealth ==
    ASSUME NEW a, NEW h, NEW body, body.health = "READY" => h = "READY"
    PROVE  Checked(a, h, body).health = "READY" => h = "READY"
BY DEF Checked, Ends

\* What is made of a body leaves the health as the call did (base.check_status).
LEMMA ParsedKeepsHealth ==
    ASSUME NEW get, NEW a, NEW nothing, NEW malformed
    PROVE  Parsed(get, a, nothing, malformed).health = get.health
BY DEF Parsed, Ends

\* One of the five is READY after its answer only if it was before.
LEMMA OutcomeKeepsHealth ==
    ASSUME NEW s, NEW a, request[s].kind \in {"quote", "candles", "search"}, Asked(s) \in Unready
    PROVE  Outcome(s, a).health = "READY" => HealthOf(s) = "READY"
<1> DEFINE h == HealthOf(s)
           tf == request[s].tf
           class == request[s].class
           Keeps(out) == out.health = "READY" => h = "READY"
<1>1. \A code, x : Ends(code, x).health = x
  BY DEF Ends
<1>2. Keeps(Body(h)) /\ Keeps(Unauthorised) /\ \A code : Keeps(Ends(code, h))
  BY <1>1 DEF Body, Unauthorised
<1>3. \A p, candles : Keeps(candles) => Keeps(InTime(p, tf, h, candles))
  BY <1>1 DEF InTime
<1>4. Keeps(AlpacaGet(a, h)) /\ Keeps(DhanGet(a, h)) /\ Keeps(UpstoxGet(a, h))
      /\ Keeps(TwelveDataGet(a, h)) /\ Keeps(AlphaVantageGet(a, h))
  <2> HIDE DEF h
  <2>1. \A body : Keeps(body) => Keeps(Checked(a, h, body))
    BY CheckedKeepsHealth
  <2> QED
    BY <1>1, <1>2, <2>1 DEF AlpacaGet, DhanGet, UpstoxGet, TwelveDataGet, AlphaVantageGet
<1>5. \A get, nothing, malformed : Keeps(get) => Keeps(Parsed(get, a, nothing, malformed))
  BY ParsedKeepsHealth
<1> HIDE DEF h, tf, class, Keeps
<1>6. CASE request[s].kind = "quote"
  <2>1. Outcome(s, a) = QuoteOf(s, a)
    BY <1>6 DEF Outcome
  <2>2. /\ Keeps(AlpacaQuote(a, h)) /\ Keeps(DhanQuote(a, h)) /\ Keeps(UpstoxQuote(a, h))
        /\ Keeps(TwelveDataQuote(a, h)) /\ Keeps(AlphaVantageQuote(class, a, h))
    BY <1>2, <1>4, <1>5
    DEF AlpacaQuote, DhanQuote, UpstoxQuote, TwelveDataQuote, AlphaVantageQuote
  <2>3. Keeps(QuoteOf(s, a))
    BY <1>2, <2>2 DEF QuoteOf, Unready, h, class
  <2> QED
    BY <2>1, <2>3 DEF Keeps, h
<1>7. CASE request[s].kind = "candles"
  <2>1. Outcome(s, a) = CandlesOf(s, a)
    BY <1>7 DEF Outcome
  <2>2. /\ Keeps(AlpacaCandles(a, h, tf)) /\ Keeps(DhanCandles(a, h, tf))
        /\ Keeps(UpstoxCandles(a, h, tf)) /\ Keeps(TwelveDataCandles(a, h, tf))
        /\ Keeps(AlphaVantageCandles(class, a, h, tf))
    BY <1>2, <1>3, <1>4, <1>5
    DEF AlpacaCandles, DhanCandles, UpstoxCandles, TwelveDataCandles, AlphaVantageCandles
  <2>3. Keeps(CandlesOf(s, a))
    BY <1>2, <2>2 DEF CandlesOf, Unready, h, tf, class
  <2> QED
    BY <2>1, <2>3 DEF Keeps, h
<1>8. CASE request[s].kind = "search"
  <2>1. Outcome(s, a) = Search(s, a)
    BY <1>8 DEF Outcome
  <2>2. /\ Keeps(AlpacaSearch(a, h)) /\ Keeps(TwelveDataSearch(a, h))
        /\ Keeps(MasterSearch(a, h)) /\ Keeps(OwnListSearch(h))
    BY <1>2, <1>4, <1>5 DEF AlpacaSearch, TwelveDataSearch, MasterSearch, OwnListSearch
  <2>3. Keeps(Search(s, a))
    BY <1>2, <2>2 DEF Search, Unready, h
  <2> QED
    BY <2>1, <2>3 DEF Keeps, h
<1> QED
  BY <1>6, <1>7, <1>8

\* A thread serves nothing, or a request of one of the three kinds.
KindsServed == \A s \in Slots : request[s] = NoRequest \/ request[s].kind \in {"quote", "candles", "search"}

\* The kind of a request is one the router knows, for as long as it is served.
LEMMA KindsHold == MarketSpec => []KindsServed
<1>1. MarketInit => KindsServed
  BY DEF MarketInit, KindsServed
<1>2. Served /\ KindsServed /\ [MarketNext]_marketVars => KindsServed'
  <2> SUFFICES ASSUME Served, KindsServed, [MarketNext]_marketVars
               PROVE  KindsServed'
    OBVIOUS
  <2>1. ASSUME NEW s \in Slots, Ask(s)
        PROVE  KindsServed'
    <3>1. \A u \in Slots \ {s} : request'[u] = request[u]
      BY <2>1 DEF Ask, AskQuote, AskCandles, AskSearch, BeginRequest, Served
    <3>2. request'[s].kind \in {"quote", "candles", "search"}
      <4>1. ASSUME NEW class, AskQuote(s, class)
            PROVE  request'[s].kind = "quote"
        BY <4>1 DEF AskQuote, BeginRequest, Served, NoRequest
      <4>2. ASSUME NEW class, NEW tf, AskCandles(s, class, tf)
            PROVE  request'[s].kind = "candles"
        BY <4>2 DEF AskCandles, BeginRequest, Served, NoRequest
      <4>3. AskSearch(s) => request'[s].kind = "search"
        BY DEF AskSearch, BeginRequest, Served, NoRequest
      <4> QED
        BY <2>1, <4>1, <4>2, <4>3 DEF Ask
    <3> QED
      BY <3>1, <3>2 DEF KindsServed
  <2>2. ASSUME NEW s \in Slots, Work(s)
        PROVE  KindsServed'
    <3>1. /\ \A u \in Slots \ {s} : request'[u] = request[u]
          /\ request'[s] = NoRequest \/ request'[s].kind = request[s].kind
      BY <2>2, WorkKeepsTask DEF SameTask
    <3>2. request[s] # NoRequest
      BY <2>2 DEF Work, Retry, Reply, Login, LoadMaster, Skip, Answered, Active
    <3> QED
      BY <3>1, <3>2 DEF KindsServed
  <2>3. CASE Rebuild \/ UNCHANGED marketVars
    BY <2>3 DEF Rebuild, marketVars, KindsServed
  <2> QED
    BY <2>1, <2>2, <2>3 DEF MarketNext
<1> QED
  BY <1>1, <1>2, ServedHolds, PTL DEF MarketSpec

\* Every router has a state for each provider of its routes.
HealthTables == \A g \in 1..Len(routers) : DOMAIN routers[g].health = Providers

\* What a step leaves of router x: its table, and that of the five it is as before or worse.
OneKept(x) ==
    /\ DOMAIN routers'[x].health = Providers
    /\ \A q \in Providers \intersect Unready :
          routers[x].health[q] # "READY" => routers'[x].health[q] # "READY"

\* A change of one router that sets the health of one provider, if any.
LEMMA HealthChanges ==
    ASSUME Built, HealthTables, NEW g, NEW p, NEW state, NEW rt,
           routers' = [routers EXCEPT ![g] = rt],
           g \in 1..Len(routers) =>
               /\ rt.health = [routers[g].health EXCEPT ![p] = state]
               /\ p \in Unready /\ state = "READY" => routers[g].health[p] = "READY"
    PROVE  \A x \in 1..Len(routers) : OneKept(x)
<1>1. \A x \in 1..Len(routers) : routers'[x] = IF x = g THEN rt ELSE routers[x]
  BY DEF Built
<1>2. CASE g \in 1..Len(routers)
  <2>1. DOMAIN routers[g].health = Providers
    BY <1>2 DEF HealthTables
  <2>2. \A q \in Providers : rt.health[q] = IF q = p THEN state ELSE routers[g].health[q]
    BY <1>2, <2>1
  <2>3. DOMAIN rt.health = Providers
    BY <1>2, <2>1
  <2> QED
    BY <1>1, <1>2, <2>2, <2>3 DEF HealthTables, OneKept
<1>3. CASE g \notin 1..Len(routers)
  BY <1>1, <1>3 DEF HealthTables, OneKept
<1> QED
  BY <1>2, <1>3

\* No step makes one of the five READY that was not.
LEMMA HealthKept ==
    ASSUME Built, Served, KindsServed, HealthTables, [MarketNext]_marketVars
    PROVE  \A x \in 1..Len(routers) : OneKept(x)
<1>1. UNCHANGED routers => \A x \in 1..Len(routers) : OneKept(x)
  BY DEF HealthTables, OneKept
<1>2. ASSUME NEW g, NEW rt, routers' = [routers EXCEPT ![g] = rt],
             g \in 1..Len(routers) => rt.health = routers[g].health
      PROVE  \A x \in 1..Len(routers) : OneKept(x)
  <2>1. \A x \in 1..Len(routers) : routers'[x].health = routers[x].health
    BY <1>2 DEF Built
  <2> QED
    BY <2>1 DEF HealthTables, OneKept
<1>3. ASSUME NEW s \in Slots, NEW out, Recorded(s, out),
             Asked(s) \in Unready /\ out.health = "READY" => HealthOf(s) = "READY"
      PROVE  \A x \in 1..Len(routers) : OneKept(x)
  <2> DEFINE g == request[s].on
             health == [routers[g].health EXCEPT ![Asked(s)] = out.health]
             rt == [routers[g] EXCEPT !.health = health]
  <2>1. routers' = [routers EXCEPT ![g] = rt]
    BY <1>3 DEF Recorded
  <2>2. g \in 1..Len(routers) => rt.health = health
    BY DEF Built, RouterFields, NewRouter
  <2>3. Asked(s) \in Unready /\ out.health = "READY" => routers[g].health[Asked(s)] = "READY"
    BY <1>3 DEF HealthOf, On
  <2> HIDE DEF rt
  <2> QED
    BY <2>1, <2>2, <2>3, HealthChanges
<1>4. ASSUME NEW s \in Slots, NEW a, Reply(s, a)
      PROVE  \A x \in 1..Len(routers) : OneKept(x)
  <2>1. Recorded(s, Outcome(s, a)) /\ request[s] # NoRequest
    BY <1>4 DEF Reply, Active
  <2>2. request[s].kind \in {"quote", "candles", "search"}
    BY <2>1 DEF KindsServed
  <2>3. Asked(s) \in Unready /\ Outcome(s, a).health = "READY" => HealthOf(s) = "READY"
    BY <2>2, OutcomeKeepsHealth
  <2> QED
    BY <1>3, <2>1, <2>3
<1>5. ASSUME NEW s \in Slots, NEW a, Login(s, a)
      PROVE  \A x \in 1..Len(routers) : OneKept(x)
  <2> DEFINE g == request[s].on
             health == [routers[g].health EXCEPT !["angel"] = "READY"]
             rt == [routers[g] EXCEPT !.session = TRUE, !.health = health]
  <2>1. Asked(s) \notin Unready /\ "angel" \notin Unready
    BY <1>5 DEF Login, LogsIn, Unready
  <2>2. CASE routers' = [routers EXCEPT ![g].session = TRUE, ![g].health["angel"] = "READY"]
    <3>1. routers' = [routers EXCEPT ![g] = rt]
      BY <2>2
    <3>2. g \in 1..Len(routers) => rt.health = health
      BY DEF Built, RouterFields, NewRouter
    <3> HIDE DEF rt
    <3> QED
      BY <2>1, <3>1, <3>2, HealthChanges
  <2> QED
    BY <1>3, <1>5, <2>1, <2>2 DEF Login
<1>6. ASSUME NEW s \in Slots, NEW a, LoadMaster(s, a)
      PROVE  \A x \in 1..Len(routers) : OneKept(x)
  <2> DEFINE g == request[s].on
             segment == Segment(request[s].class)
  <2>1. PICK list, fresh : routers' = [routers EXCEPT ![g].master[segment] = list, ![g].fresh = fresh]
    BY <1>6 DEF LoadMaster
  <2> DEFINE master == [routers[g].master EXCEPT ![segment] = list]
             rt == [routers[g] EXCEPT !.master = master, !.fresh = fresh]
  <2>2. routers' = [routers EXCEPT ![g] = rt]
    BY <2>1
  <2>3. g \in 1..Len(routers) => rt.health = routers[g].health
    BY DEF Built, RouterFields, NewRouter
  <2> QED
    BY <1>2, <2>2, <2>3
<1>7. CASE Rebuild
  <2>1. \A x \in 1..Len(routers) : routers'[x] = routers[x]
    BY <1>7, AppendProperties DEF Rebuild, Built
  <2> QED
    BY <2>1 DEF HealthTables, OneKept
<1>8. ASSUME NEW s \in Slots, Ask(s) \/ Work(s)
      PROVE  \A x \in 1..Len(routers) : OneKept(x)
  BY <1>1, <1>4, <1>5, <1>6, <1>8 DEF Ask, AskQuote, AskCandles, AskSearch, Work, Retry, Skip, Answered
<1> QED
  BY <1>1, <1>7, <1>8 DEF MarketNext, marketVars

\* Only a change of credentials adds a router.
LEMMA OnlyRebuildAdds ==
    ASSUME [MarketNext]_marketVars
    PROVE  Rebuild \/ DOMAIN routers' = DOMAIN routers
<1>1. ASSUME NEW s, Ask(s)
      PROVE  DOMAIN routers' = DOMAIN routers
  BY <1>1 DEF Ask, AskQuote, AskCandles, AskSearch
<1>2. ASSUME NEW s, NEW out, Recorded(s, out)
      PROVE  DOMAIN routers' = DOMAIN routers
  BY <1>2 DEF Recorded
<1>3. ASSUME NEW s, Work(s)
      PROVE  DOMAIN routers' = DOMAIN routers
  BY <1>2, <1>3 DEF Work, Retry, Reply, Login, LoadMaster, Skip, Answered
<1> QED
  BY <1>1, <1>3 DEF MarketNext, marketVars

\* The tables of health are those of the routes, for routers built later too.
LEMMA TablesHold == MarketSpec => []HealthTables
<1>1. MarketInit => HealthTables
  BY DEF MarketInit, HealthTables, NewRouter
<1>2. Built /\ Served /\ KindsServed /\ HealthTables /\ [MarketNext]_marketVars => HealthTables'
  <2> SUFFICES ASSUME Built, Served, KindsServed, HealthTables, [MarketNext]_marketVars
               PROVE  HealthTables'
    OBVIOUS
  <2>1. \A x \in 1..Len(routers) : DOMAIN routers'[x].health = Providers
    BY HealthKept DEF OneKept
  <2>2. \A x \in 1..Len(routers') : x \in 1..Len(routers) \/ routers'[x] = NewRouter
    <3>1. CASE Rebuild
      BY <3>1, AppendProperties DEF Rebuild, Built
    <3>2. CASE DOMAIN routers' = DOMAIN routers
      <4>1. DOMAIN routers = 1..Len(routers) /\ DOMAIN routers' = 1..Len(routers')
        BY RoutersKept DEF Built
      <4> QED
        BY <3>2, <4>1
    <3> QED
      BY <3>1, <3>2, OnlyRebuildAdds
  <2>3. DOMAIN NewRouter.health = Providers
    BY DEF NewRouter
  <2> QED
    BY <2>1, <2>2, <2>3 DEF HealthTables
<1> QED
  BY <1>1, <1>2, BuiltHolds, ServedHolds, KindsHold, PTL DEF MarketSpec

\* A provider that is not READY never becomes so by its answers: only the lists of
\* Binance and CoinGecko and the login of Angel One set READY again (market_router).
THEOREM ReadyIsNeverRegained == MarketSpec => NeverReadyAgain
<1>1. Providers \ {"binance", "coingecko", "angel"} \subseteq Unready
  <2>1. \A c \in Classes : ToSet(Routes[c]) \subseteq Known
    BY MarketDataAssumption DEF MarketDataAssumption, Known, ToSet
  <2> QED
    BY <2>1 DEF Providers, Known, Lacks, Unready
<1>2. Built /\ Served /\ KindsServed /\ HealthTables /\ [MarketNext]_marketVars
        => [\A g \in 1..Len(routers), p \in Providers \ {"binance", "coingecko", "angel"} :
                routers[g].health[p] # "READY" => routers'[g].health[p] # "READY"]_marketVars
  BY <1>1, HealthKept DEF OneKept
<1> QED
  BY <1>2, BuiltHolds, ServedHolds, KindsHold, TablesHold, PTL DEF MarketSpec, NeverReadyAgain

-----------------------------------------------------------------------------
(***************************************************************************)
(* The feed.  First what is kept of a sequence that is cut or loses an     *)
(* entry.                                                                  *)
(***************************************************************************)
Cut(s, n) == IF Len(s) > n THEN Len(s) - n ELSE 0

\* The end of a sequence, element by element.
LEMMA LastOfIs ==
    ASSUME NEW S, NEW s \in Seq(S), NEW n \in Nat \ {0}
    PROVE  /\ LastOf(s, n) \in Seq(S)
           /\ Len(LastOf(s, n)) = Len(s) - Cut(s, n)
           /\ Cut(s, n) \in 0..Len(s)
           /\ Len(LastOf(s, n)) <= n
           /\ Len(s) > 0 => Len(LastOf(s, n)) > 0
           /\ \A k \in 1..Len(LastOf(s, n)) : LastOf(s, n)[k] = s[k + Cut(s, n)]
<1> DEFINE first == IF Len(s) > n THEN Len(s) - n + 1 ELSE 1
<1>1. Len(s) \in Nat /\ first \in Int /\ first = Cut(s, n) + 1 /\ first >= 1
  BY DEF Cut
<1>2. \A k \in first..Len(s) : s[k] \in S
  BY <1>1
<1>3. /\ SubSeq(s, first, Len(s)) \in Seq(S)
      /\ Len(SubSeq(s, first, Len(s))) = IF first <= Len(s) THEN Len(s) - first + 1 ELSE 0
      /\ \A k \in 1..(Len(s) - first + 1) : SubSeq(s, first, Len(s))[k] = s[first + k - 1]
  <2> HIDE DEF first
  <2> QED
    BY <1>1, <1>2, SubSeqProperties
<1>4. LastOf(s, n) = SubSeq(s, first, Len(s))
  BY DEF LastOf
<1>5. Cut(s, n) \in 0..Len(s) /\ Len(s) - Cut(s, n) <= n /\ (Len(s) > 0 => Len(s) - Cut(s, n) > 0)
  BY <1>1 DEF Cut
<1> HIDE DEF first
<1>6. Len(LastOf(s, n)) = Len(s) - Cut(s, n)
  BY <1>1, <1>3, <1>4, <1>5
<1>7. \A k \in 1..Len(LastOf(s, n)) : LastOf(s, n)[k] = s[k + Cut(s, n)]
  <2>1. ASSUME NEW k \in 1..(Len(s) - Cut(s, n)) PROVE first + k - 1 = k + Cut(s, n)
    BY <1>1, <1>5
  <2>2. Len(s) - first + 1 = Len(s) - Cut(s, n)
    BY <1>1, <1>5
  <2> QED
    BY <1>3, <1>4, <1>6, <2>1, <2>2
<1> QED
  BY <1>3, <1>4, <1>5, <1>6, <1>7

\* The members of a sequence are what its places hold.
LEMMA MembersOf ==
    ASSUME NEW S, NEW s \in Seq(S)
    PROVE  /\ \A x \in ToSet(s) : x \in S
           /\ \A x : x \in ToSet(s) <=> \E k \in 1..Len(s) : s[k] = x
<1>1. DOMAIN s = 1..Len(s)
  OBVIOUS
<1>2. \A x : x \in ToSet(s) <=> \E k \in 1..Len(s) : s[k] = x
  BY <1>1 DEF ToSet
<1>3. \A k \in 1..Len(s) : s[k] \in S
  OBVIOUS
<1> QED
  BY <1>2, <1>3

\* One entry of x is gone, and the order of the others stays.
LEMMA RemoveFirstIs ==
    ASSUME NEW S, NEW s \in Seq(S), NEW x
    PROVE  /\ RemoveFirst(s, x) \in Seq(S)
           /\ x \notin ToSet(s) => RemoveFirst(s, x) = s
           /\ x \in ToSet(s) =>
                \E k \in 1..Len(s) :
                    /\ s[k] = x
                    /\ Len(RemoveFirst(s, x)) = Len(s) - 1
                    /\ \A j \in 1..(Len(s) - 1) :
                          RemoveFirst(s, x)[j] = IF j < k THEN s[j] ELSE s[j + 1]
<1> DEFINE I == {k \in 1..Len(s) : s[k] = x}
           at == CHOOSE k \in I : \A j \in I : k <= j
<1>1. Len(s) \in Nat /\ DOMAIN s = 1..Len(s)
  OBVIOUS
<1>2. CASE x \notin ToSet(s)
  <2>1. ~\E k \in 1..Len(s) : s[k] = x
    BY <1>1, <1>2 DEF ToSet
  <2> QED
    BY <1>2, <2>1 DEF RemoveFirst
<1>3. CASE x \in ToSet(s)
  <2>1. I # {} /\ I \in SUBSET Nat
    BY <1>1, <1>3 DEF ToSet
  <2>2. at \in I
    <3> HIDE DEF I
    <3> QED
      BY <2>1, SmallestExists
  <2>3. RemoveFirst(s, x) = RemoveAt(s, at)
    <3>1. \E k \in 1..Len(s) : s[k] = x
      BY <2>1
    <3> QED
      BY <2>1, <3>1 DEF RemoveFirst, SelectInSeq, Min
  <2>4. at \in 1..Len(s) /\ s[at] = x
    BY <2>2
  <2> HIDE DEF at, I
  <2>5. /\ SubSeq(s, 1, at - 1) \in Seq(S) /\ Len(SubSeq(s, 1, at - 1)) = at - 1
        /\ \A j \in 1..(at - 1) : SubSeq(s, 1, at - 1)[j] = s[j]
    <3>1. \A j \in 1..(at - 1) : s[j] \in S
      BY <1>1, <2>4
    <3> QED
      BY <1>1, <2>4, <3>1, SubSeqProperties
  <2>6. /\ SubSeq(s, at + 1, Len(s)) \in Seq(S) /\ Len(SubSeq(s, at + 1, Len(s))) = Len(s) - at
        /\ \A j \in 1..(Len(s) - at) : SubSeq(s, at + 1, Len(s))[j] = s[at + j]
    <3>1. \A j \in (at + 1)..Len(s) : s[j] \in S
      BY <1>1, <2>4
    <3>2. /\ SubSeq(s, at + 1, Len(s)) \in Seq(S)
          /\ Len(SubSeq(s, at + 1, Len(s))) = IF at + 1 <= Len(s) THEN Len(s) - (at + 1) + 1 ELSE 0
          /\ \A j \in 1..(Len(s) - (at + 1) + 1) : SubSeq(s, at + 1, Len(s))[j] = s[(at + 1) + j - 1]
      BY <1>1, <2>4, <3>1, SubSeqProperties
    <3>3. Len(s) - (at + 1) + 1 = Len(s) - at /\ \A j \in 1..(Len(s) - at) : (at + 1) + j - 1 = at + j
      BY <1>1, <2>4
    <3>4. (IF at + 1 <= Len(s) THEN Len(s) - (at + 1) + 1 ELSE 0) = Len(s) - at
      <4>1. CASE at + 1 <= Len(s)
        BY <3>3, <4>1
      <4>2. CASE ~(at + 1 <= Len(s))
        <5>1. at \in Nat /\ Len(s) \in Nat /\ at <= Len(s)
          BY <1>1, <2>4
        <5>2. at = Len(s) /\ Len(s) - at = 0
          BY <5>1, <4>2
        <5> QED
          BY <4>2, <5>2
      <4> QED
        BY <4>1, <4>2
    <3> HIDE DEF I
    <3> QED
      BY <3>2, <3>3, <3>4
  <2> DEFINE r == SubSeq(s, 1, at - 1) \o SubSeq(s, at + 1, Len(s))
  <2>7. /\ r \in Seq(S) /\ Len(r) = Len(s) - 1
        /\ \A j \in 1..(Len(s) - 1) : r[j] = IF j < at THEN s[j] ELSE s[j + 1]
    <3>1. /\ r \in Seq(S)
          /\ Len(r) = (at - 1) + (Len(s) - at)
          /\ \A j \in 1..((at - 1) + (Len(s) - at)) :
                r[j] = IF j <= at - 1 THEN SubSeq(s, 1, at - 1)[j]
                       ELSE SubSeq(s, at + 1, Len(s))[j - (at - 1)]
      BY <2>5, <2>6, ConcatProperties
    <3> HIDE DEF r
    <3>2. (at - 1) + (Len(s) - at) = Len(s) - 1
      BY <1>1, <2>4
    <3>3. ASSUME NEW j \in 1..(Len(s) - 1)
          PROVE  r[j] = IF j < at THEN s[j] ELSE s[j + 1]
      <4>1. CASE j < at
        BY <1>1, <2>4, <2>5, <3>1, <3>2, <4>1
      <4>2. CASE ~(j < at)
        <5>1. j - (at - 1) \in 1..(Len(s) - at) /\ at + (j - (at - 1)) = j + 1 /\ ~(j <= at - 1)
          BY <1>1, <2>4, <4>2
        <5> QED
          BY <2>6, <3>1, <3>2, <4>2, <5>1
      <4> QED
        BY <4>1, <4>2
    <3> QED
      BY <3>1, <3>2, <3>3
  <2>8. RemoveFirst(s, x) = r
    BY <2>3 DEF RemoveAt
  <2> HIDE DEF r
  <2> QED
    BY <1>3, <2>4, <2>7, <2>8
<1> QED
  BY <1>2, <1>3

\* The candles of a fetch follow one another up to the one in progress.
LEMMA RecentIs ==
    ASSUME now \in Candles
    PROVE  /\ Recent \in Seq(Bar)
           /\ Recent # <<>>
           /\ \A i \in 1..Len(Recent) : Recent[i].ts = Recent[1].ts + i - 1 /\ Recent[i].ts <= now
<1> DEFINE first == IF now > Window THEN now - Window + 1 ELSE 1
<1>1. now \in Nat /\ MaxCandle \in Nat /\ now <= MaxCandle /\ first \in 1..now
  BY SignalFeedAssumption DEF Candles
<1> HIDE DEF first
<1>2. now - first + 1 \in Nat \ {0}
  BY <1>1
<1>3. Recent = [i \in 1..(now - first + 1) |-> [ts |-> first + i - 1, final |-> first + i - 1 < now]]
  BY DEF Recent, first
<1>4. ASSUME NEW i \in 1..(now - first + 1)
      PROVE  Recent[i] \in Bar /\ Recent[i].ts = first + i - 1 /\ first + i - 1 <= now
  <2>1. first + i - 1 \in Candles /\ first + i - 1 <= now
    BY <1>1 DEF Candles
  <2>2. (first + i - 1 < now) \in BOOLEAN
    OBVIOUS
  <2>3. Recent[i] = [ts |-> first + i - 1, final |-> first + i - 1 < now]
    BY <1>3
  <2> DEFINE t == first + i - 1
             f == t < now
  <2>4. t \in Candles /\ f \in BOOLEAN /\ Recent[i] = [ts |-> t, final |-> f]
    BY <2>1, <2>2, <2>3, Zenon
  <2>5. t = first + i - 1 /\ t <= now
    BY <2>1
  <2> HIDE DEF t, f
  <2>6. Recent[i] \in Bar /\ Recent[i].ts = t
    BY <2>4 DEF Bar
  <2> QED
    BY <2>5, <2>6
<1>5. Recent \in [1..(now - first + 1) -> Bar]
  BY <1>3, <1>4, Zenon
<1>6. Recent \in Seq(Bar) /\ Len(Recent) = now - first + 1
  BY <1>2, <1>5
<1>7. 1 \in 1..(now - first + 1) /\ Recent[1].ts = first + 1 - 1
  BY <1>2, <1>4
<1>8. \A i \in 1..(now - first + 1) : first + i - 1 = (first + 1 - 1) + i - 1
  BY <1>1
<1>9. \A i \in 1..Len(Recent) : Recent[i].ts = Recent[1].ts + i - 1 /\ Recent[i].ts <= now
  BY <1>4, <1>6, <1>7, <1>8
<1> QED
  BY <1>2, <1>6, <1>9

-----------------------------------------------------------------------------
\* The rows of a batch follow one another and none is of the future; a runner
\* is shown a bar only when there is one.
RowsFollow ==
    /\ \A i \in 1..Len(rows) : rows[i].ts = rows[1].ts + i - 1 /\ rows[i].ts <= now
    /\ todo # <<>> => series # <<>>

FeedTyped == TypeOK /\ RowsFollow

\* The typing of the feed holds at the start.
LEMMA FeedTypedInit == Init => FeedTyped
<1> SUFFICES ASSUME Init PROVE FeedTyped
  OBVIOUS
<1>1. 1 \in Candles /\ HubSize \in Nat /\ BarsKept \in Nat
  BY SignalFeedAssumption DEF Candles
<1>2. \A S : <<>> \in Seq(S) /\ Len(<<>>) = 0
  OBVIOUS
<1>3. TypeOK
  BY <1>1, <1>2 DEF Init, TypeOK
<1>4. RowsFollow
  BY DEF Init, RowsFollow
<1> QED
  BY <1>3, <1>4 DEF FeedTyped

\* The hub and the table keep their types when a signal is published.
LEMMA OnSignalTyped ==
    ASSUME TypeOK, NEW id \in Ids, OnSignal(id)
    PROVE  /\ hub' \in Seq(Entry) /\ Len(hub') <= HubSize
           /\ table' \in Seq(Ids)
           /\ published' \in [Ids -> Nat]
           /\ evicted' \subseteq Ids
<1>1. CASE id \in HubIds
  BY <1>1, Zenon DEF OnSignal, TypeOK, hubVars
<1>2. CASE id \notin HubIds
  <2> DEFINE pushed == Append(hub, [id |-> id, open |-> TRUE])
  <2>1. pushed \in Seq(Entry)
    BY DEF TypeOK, Entry
  <2>2. /\ hub' = LastOf(pushed, HubSize)
        /\ table' = Append(RemoveFirst(table, id), id)
        /\ published' = [published EXCEPT ![id] = @ + 1]
        /\ evicted' = evicted \union
             {e.id : e \in ToSet(SubSeq(pushed, 1, Len(pushed) - Len(LastOf(pushed, HubSize))))}
    BY <1>2, Zenon DEF OnSignal
  <2> HIDE DEF pushed
  <2>3. hub' \in Seq(Entry) /\ Len(hub') <= HubSize /\ Len(pushed) - Len(LastOf(pushed, HubSize)) \in 0..Len(pushed)
    BY <2>1, <2>2, LastOfIs, SignalFeedAssumption
  <2>4. RemoveFirst(table, id) \in Seq(Ids)
    BY RemoveFirstIs DEF TypeOK
  <2>5. table' \in Seq(Ids)
    BY <2>2, <2>4
  <2>6. published' \in [Ids -> Nat]
    BY <2>2 DEF TypeOK
  <2>7. SubSeq(pushed, 1, Len(pushed) - Len(LastOf(pushed, HubSize))) \in Seq(Entry)
    <3> DEFINE m == Len(pushed) - Len(LastOf(pushed, HubSize))
    <3>1. m \in 0..Len(pushed)
      BY <2>3
    <3> HIDE DEF m
    <3>2. \A k \in 1..m : pushed[k] \in Entry
      BY <2>1, <3>1
    <3>3. SubSeq(pushed, 1, m) \in Seq(Entry)
      BY <2>1, <3>1, <3>2, SubSeqProperties
    <3> QED
      BY <3>3 DEF m
  <2>8. \A q \in Seq(Entry) : \A e \in ToSet(q) : e.id \in Ids
    <3>1. \A e \in Entry : e.id \in Ids
      BY DEF Entry
    <3> QED
      BY <3>1, MembersOf
  <2>9. evicted' \subseteq Ids
    BY <2>2, <2>7, <2>8 DEF TypeOK
  <2> QED
    BY <2>3, <2>5, <2>6, <2>9
<1> QED
  BY <1>1, <1>2

\* Every step keeps the typing of the feed, and its rows in sequence.
LEMMA FeedTypedStep == FeedTyped /\ [Next]_vars => FeedTyped'
<1> SUFFICES ASSUME FeedTyped, [Next]_vars PROVE FeedTyped'
  OBVIOUS
<1>1. TypeOK /\ RowsFollow
  BY DEF FeedTyped
<1>2. MaxCandle \in Nat /\ Candles = 1..MaxCandle /\ now \in 1..MaxCandle /\ HubSize \in Nat \ {0}
      /\ BarsKept \in Nat \ {0}
  BY <1>1, SignalFeedAssumption DEF TypeOK, Candles
<1>3. \A S : <<>> \in Seq(S) /\ Len(<<>>) = 0
  OBVIOUS
<1>4. rows # <<>> => /\ Len(rows) \in Nat \ {0} /\ rows[1] \in Bar /\ Head(rows) = rows[1]
                     /\ rows[Len(rows)] \in Bar
                     /\ rows[1].ts \in Candles /\ rows[1].ts <= now
                     /\ rows[Len(rows)].ts \in Candles /\ rows[Len(rows)].ts <= now
                     /\ Tail(rows) \in Seq(Bar)
                     /\ \A i \in 1..Len(Tail(rows)) : /\ Tail(rows)[i].ts = Tail(rows)[1].ts + i - 1
                                                      /\ Tail(rows)[i].ts <= now
  <2> SUFFICES ASSUME rows # <<>>
               PROVE /\ Len(rows) \in Nat \ {0} /\ rows[1] \in Bar /\ Head(rows) = rows[1]
                     /\ rows[Len(rows)] \in Bar
                     /\ rows[1].ts \in Candles /\ rows[1].ts <= now
                     /\ rows[Len(rows)].ts \in Candles /\ rows[Len(rows)].ts <= now
                     /\ Tail(rows) \in Seq(Bar)
                     /\ \A i \in 1..Len(Tail(rows)) : /\ Tail(rows)[i].ts = Tail(rows)[1].ts + i - 1
                                                      /\ Tail(rows)[i].ts <= now
    OBVIOUS
  <2>1. rows \in Seq(Bar) /\ Len(rows) \in Nat \ {0} /\ rows[1] \in Bar /\ Head(rows) = rows[1] /\ rows[Len(rows)] \in Bar
    BY <1>1 DEF TypeOK
  <2>2. 1 \in 1..Len(rows) /\ Len(rows) \in 1..Len(rows)
    BY <2>1
  <2>3. /\ rows[1].ts \in Candles /\ rows[1].ts <= now
        /\ rows[Len(rows)].ts \in Candles /\ rows[Len(rows)].ts <= now
    BY <1>1, <2>1, <2>2 DEF RowsFollow, Bar
  <2>4. /\ Tail(rows) \in Seq(Bar) /\ Len(Tail(rows)) = Len(rows) - 1
        /\ \A i \in 1..(Len(rows) - 1) : Tail(rows)[i] = rows[i + 1]
    BY <2>1
  <2>5. rows[1].ts \in Int
    BY <1>2, <2>3
  <2>6. ASSUME NEW i \in 1..(Len(rows) - 1)
        PROVE  Tail(rows)[i].ts = Tail(rows)[1].ts + i - 1 /\ Tail(rows)[i].ts <= now
    <3>1. i + 1 \in 1..Len(rows) /\ 2 \in 1..Len(rows) /\ 1 \in 1..(Len(rows) - 1)
      BY <2>1
    <3>2. /\ rows[i + 1].ts = rows[1].ts + (i + 1) - 1 /\ rows[i + 1].ts <= now
          /\ rows[2].ts = rows[1].ts + 2 - 1
      BY <1>1, <3>1 DEF RowsFollow
    <3>3. Tail(rows)[i] = rows[i + 1] /\ Tail(rows)[1] = rows[2]
      BY <2>4, <3>1
    <3> QED
      BY <2>5, <3>2, <3>3
  <2> QED
    BY <2>1, <2>3, <2>4, <2>6
<1>5. ASSUME phase \in {"prime", "poll", "ingest"}, phase' \in {"prime", "poll", "ingest"},
             now' = now, boots' = boots, rows' = rows, last' = last, series' = series, todo' = todo,
             active' = active, UNCHANGED hubVars, skipped' = skipped
      PROVE  FeedTyped'
  BY <1>1, <1>5 DEF TypeOK, RowsFollow, FeedTyped, hubVars
<1>6. CASE Tick
  <2>1. now' = now + 1 /\ now < MaxCandle /\ now' \in Candles
    BY <1>2, <1>6 DEF Tick
  <2>2. UNCHANGED <<boots, phase, rows, last, series, todo, active, hub, table, published, evicted, skipped>>
    BY <1>6, Zenon DEF Tick, loopVars, hubVars
  <2>3. last \in 0..now /\ last \in 0..(now + 1)
    BY <1>1, <1>2 DEF TypeOK
  <2>4. TypeOK'
    BY <1>1, <2>1, <2>2, <2>3 DEF TypeOK
  <2>5. RowsFollow'
    <3>1. \A i \in 1..Len(rows) : rows[i].ts <= now + 1
      <4>1. \A i \in 1..Len(rows) : rows[i].ts \in Nat /\ rows[i].ts <= now
        <5>1. ASSUME NEW i \in 1..Len(rows) PROVE rows[i].ts \in Nat
          <6>1. rows[i] \in Bar
            BY <1>1 DEF TypeOK
          <6> QED
            BY <1>2, <6>1 DEF Bar
        <5> QED
          BY <1>1, <5>1 DEF RowsFollow
      <4> QED
        BY <1>2, <4>1
    <3> QED
      BY <1>1, <2>1, <2>2, <3>1 DEF RowsFollow
  <2> QED
    BY <2>4, <2>5 DEF FeedTyped
<1>7. CASE Fetch
  <2>1. rows' = Recent
        /\ UNCHANGED <<now, boots, phase, last, series, todo, active, hub, table, published, evicted, skipped>>
    BY <1>7, Zenon DEF Fetch, exchangeVars, hubVars
  <2>2. /\ Recent \in Seq(Bar)
        /\ \A i \in 1..Len(Recent) : Recent[i].ts = Recent[1].ts + i - 1 /\ Recent[i].ts <= now
    BY <1>1, RecentIs DEF TypeOK
  <2> QED
    BY <1>1, <2>1, <2>2 DEF TypeOK, RowsFollow, FeedTyped
<1>8. CASE FetchFails
  BY <1>5, <1>8 DEF FetchFails, exchangeVars
<1>9. CASE Prime
  <2>1. /\ rows # <<>> /\ last' = rows[Len(rows)].ts /\ series' = LastOf(rows, BarsKept) /\ rows' = <<>>
        /\ phase' = "poll"
        /\ UNCHANGED <<now, boots, todo, active, hub, table, published, evicted, skipped>>
    BY <1>9, Zenon DEF Prime, exchangeVars, hubVars
  <2>2. series' \in Seq(Bar) /\ Len(series') <= BarsKept /\ series' # <<>>
    <3>1. rows \in Seq(Bar) /\ Len(rows) > 0
      BY <1>1, <1>4, <2>1 DEF TypeOK
    <3> QED
      BY <1>2, <2>1, <3>1, LastOfIs
  <2>3. last' \in 0..now
    BY <1>2, <1>4, <2>1
  <2> QED
    BY <1>1, <1>3, <2>1, <2>2, <2>3 DEF TypeOK, RowsFollow, FeedTyped
<1>10. CASE StartIngest
  <2>1. /\ phase' = "ingest"
        /\ skipped' = skipped \union {c \in Candles : last > 0 /\ last < c /\ c < rows[1].ts}
        /\ UNCHANGED <<now, boots, rows, last, series, todo, active, hub, table, published, evicted>>
    BY <1>10, Zenon DEF StartIngest, exchangeVars, hubVars
  <2> QED
    BY <1>1, <2>1 DEF TypeOK, RowsFollow, FeedTyped
<1>11. CASE PassOver
  <2>1. /\ rows # <<>> /\ rows' = Tail(rows)
        /\ UNCHANGED <<now, boots, phase, last, series, todo, active, hub, table, published, evicted, skipped>>
    BY <1>11, Zenon DEF PassOver, exchangeVars, hubVars
  <2> QED
    BY <1>1, <1>4, <2>1 DEF TypeOK, RowsFollow, FeedTyped
<1>12. CASE EndIngest
  BY <1>5, <1>12 DEF EndIngest, exchangeVars
<1>13. ASSUME NEW valid \in BOOLEAN, IngestBar(valid) PROVE FeedTyped'
  <2>1. /\ rows # <<>> /\ rows' = Tail(rows) /\ last' = rows[1].ts
        /\ UNCHANGED <<now, boots, phase, active, hub, table, published, evicted>>
    BY <1>4, <1>13, Zenon DEF IngestBar, exchangeVars, hubVars
  <2>2. last' \in 0..now
    BY <1>2, <1>4, <2>1
  <2>3. /\ series' \in Seq(Bar) /\ Len(series') <= BarsKept
        /\ todo' \in Seq(Runners) /\ (todo' # <<>> => series' # <<>>)
        /\ skipped' \subseteq Candles
    <3>1. CASE valid
      <4>1. series' = LastOf(Append(series, rows[1]), BarsKept) /\ todo' = RunnerSeq /\ skipped' = skipped
        BY <1>4, <1>13, <2>1, <3>1 DEF IngestBar
      <4>2. Append(series, rows[1]) \in Seq(Bar) /\ Len(Append(series, rows[1])) > 0
        BY <1>1, <1>4, <2>1 DEF TypeOK
      <4>3. series' \in Seq(Bar) /\ Len(series') <= BarsKept /\ Len(series') > 0
        <5> DEFINE pushed == Append(series, rows[1])
        <5> HIDE DEF pushed
        <5>1. pushed \in Seq(Bar) /\ Len(pushed) > 0 /\ series' = LastOf(pushed, BarsKept)
          BY <4>1, <4>2 DEF pushed
        <5> QED
          BY <1>2, <5>1, LastOfIs
      <4>4. series' # <<>>
        BY <4>3
      <4>5. RunnerSeq \in Seq(Runners)
        BY SignalFeedAssumption DEF Runners
      <4> QED
        BY <1>1, <4>1, <4>3, <4>5, <4>4 DEF TypeOK
    <3>2. CASE ~valid
      <4>1. series' = series /\ todo' = <<>> /\ skipped' = skipped \union {rows[1].ts}
        BY <1>4, <1>13, <2>1, <3>2 DEF IngestBar
      <4> QED
        BY <1>1, <1>3, <1>4, <2>1, <4>1 DEF TypeOK
    <3> QED
      BY <3>1, <3>2
  <2> QED
    BY <1>1, <1>4, <2>1, <2>2, <2>3 DEF TypeOK, RowsFollow, FeedTyped
<1>14. ASSUME NEW s \in Runners, NothingMet(s) \/ Leaves(s) \/ Enters(s) PROVE FeedTyped'
  <2>1. /\ todo # <<>> /\ todo' = Tail(todo)
        /\ UNCHANGED <<now, boots, phase, rows, last, series, skipped>>
    BY <1>14, Zenon DEF NothingMet, Leaves, Enters, Handled, exchangeVars
  <2>2. todo' \in Seq(Runners) /\ series # <<>>
    BY <1>1, <2>1 DEF TypeOK, RowsFollow
  <2>3. active' \subseteq Runners
    BY <1>1, <1>14 DEF NothingMet, Leaves, Enters, TypeOK
  <2>4. /\ hub' \in Seq(Entry) /\ Len(hub') <= HubSize
        /\ table' \in Seq(Ids)
        /\ published' \in [Ids -> Nat]
        /\ evicted' \subseteq Ids
    <3>1. CASE Enters(s)
      <4>1. series[Len(series)] \in Bar
        BY <1>1, <2>2 DEF TypeOK
      <4>2. [runner |-> s, candle |-> Seen] \in Ids
        BY <4>1 DEF Ids, Seen, Bar
      <4>3. OnSignal([runner |-> s, candle |-> Seen])
        BY <3>1, Zenon DEF Enters
      <4> QED
        BY <1>1, <4>2, <4>3, OnSignalTyped
    <3>2. CASE NothingMet(s) \/ Leaves(s)
      BY <1>1, <3>2 DEF NothingMet, Leaves, hubVars, TypeOK
    <3> QED
      BY <1>14, <3>1, <3>2
  <2> QED
    BY <1>1, <2>1, <2>2, <2>3, <2>4 DEF TypeOK, RowsFollow, FeedTyped
<1>15. ASSUME NEW e \in ToSet(hub), UpdateSignal(e) PROVE FeedTyped'
  <2>1. /\ hub' = <<[e EXCEPT !.open = FALSE]>> \o RemoveFirst(hub, e)
        /\ UNCHANGED <<now, boots, phase, rows, last, series, todo, active, table, published, evicted, skipped>>
    BY <1>15, Zenon DEF UpdateSignal, exchangeVars, loopVars
  <2>2. e \in Entry
    BY <1>1, <1>15 DEF ToSet, TypeOK
  <2>3. RemoveFirst(hub, e) \in Seq(Entry) /\ Len(RemoveFirst(hub, e)) = Len(hub) - 1
    BY <1>1, <1>15, RemoveFirstIs DEF TypeOK
  <2>4. <<[e EXCEPT !.open = FALSE]>> \in Seq(Entry)
    <3>1. [e EXCEPT !.open = FALSE] \in Entry
      BY <2>2 DEF Entry
    <3> QED
      BY <3>1
  <2>5. hub' \in Seq(Entry) /\ Len(hub') = 1 + (Len(hub) - 1)
    BY <2>1, <2>3, <2>4
  <2>6. Len(hub') <= HubSize
    BY <1>1, <1>2, <2>5 DEF TypeOK
  <2> QED
    BY <1>1, <2>1, <2>5, <2>6 DEF TypeOK, RowsFollow, FeedTyped
<1>16. CASE Restart
  <2> DEFINE kept == LastOf(table, HubSize)
  <2>1. /\ phase' = "prime" /\ rows' = <<>> /\ last' = 0 /\ series' = <<>> /\ todo' = <<>> /\ active' = {}
        /\ hub' = [i \in 1..Len(kept) |-> [id |-> kept[i], open |-> TRUE]]
        /\ evicted' = evicted \union (HubIds \ ToSet(kept))
        /\ UNCHANGED <<now, table, published, skipped>> /\ boots' = boots + 1
    BY <1>16, Zenon DEF Restart
  <2>2. kept \in Seq(Ids) /\ Len(kept) \in Nat /\ Len(kept) <= HubSize
    <3>1. table \in Seq(Ids)
      BY <1>1 DEF TypeOK
    <3>2. kept \in Seq(Ids) /\ Len(kept) <= HubSize
      BY <1>2, <3>1, LastOfIs
    <3> HIDE DEF kept
    <3> QED
      BY <3>2
  <2> HIDE DEF kept
  <2>3. \A i \in 1..Len(kept) : [id |-> kept[i], open |-> TRUE] \in Entry
    BY <2>2 DEF Entry
  <2>4. hub' \in [1..Len(kept) -> Entry]
    BY <2>1, <2>3
  <2>5. hub' \in Seq(Entry) /\ Len(hub') = Len(kept)
    BY <2>2, <2>4
  <2>6. HubIds \subseteq Ids
    <3>1. \A e \in ToSet(hub) : e \in Entry
      BY <1>1, MembersOf DEF TypeOK
    <3>2. \A e \in Entry : e.id \in Ids
      BY DEF Entry
    <3> QED
      BY <3>1, <3>2 DEF HubIds
  <2> QED
    BY <1>1, <1>2, <1>3, <2>1, <2>2, <2>5, <2>6 DEF TypeOK, RowsFollow, FeedTyped
<1>17. CASE UNCHANGED vars
  BY <1>1, <1>17 DEF TypeOK, RowsFollow, FeedTyped, vars, exchangeVars, loopVars, hubVars
<1> QED
  BY <1>6, <1>7, <1>8, <1>9, <1>10, <1>11, <1>12, <1>13, <1>14, <1>15, <1>16, <1>17 DEF Next, Evaluate

\* The feed's state keeps its types: the loop is never ahead of the exchange,
\* the series and the hub stay within MAX_BARS_KEPT and maxlen.
THEOREM FeedTyping == Spec => []TypeOK
<1>1. FeedTyped => TypeOK
  BY DEF FeedTyped
<1> QED
  BY <1>1, FeedTypedInit, FeedTypedStep, PTL DEF Spec

-----------------------------------------------------------------------------
(***************************************************************************)
(* What the loop holds of the exchange: the series rises and ends at the   *)
(* last candle handled at the latest, and before the rows of a batch       *)
(* nothing is missing that is not known to be.                             *)
(***************************************************************************)
SeriesRises == \A i, j \in 1..Len(series) : i < j => series[i].ts < series[j].ts

SeriesBehind == \A i \in 1..Len(series) : series[i].ts <= last /\ last > 0

GapsAreSkipped ==
    phase = "ingest" /\ rows # <<>> /\ last > 0 =>
        \A c \in Candles : last < c /\ c < rows[1].ts => c \in skipped

SeriesWhole ==
    series # <<>> =>
        \A c \in Candles : series[1].ts <= c /\ c <= last =>
            c \in skipped \/ \E i \in 1..Len(series) : series[i].ts = c

LoopHolds == SeriesRises /\ SeriesBehind /\ GapsAreSkipped /\ SeriesWhole

\* A rising sequence of bars stays one when it is cut, and the cut loses no
\* candle that is as new as the first that is left.
LEMMA CutRises ==
    ASSUME NEW s \in Seq(Bar), NEW n \in Nat \ {0}, Len(s) > 0,
           \A i, j \in 1..Len(s) : i < j => s[i].ts < s[j].ts
    PROVE  /\ \A i, j \in 1..Len(LastOf(s, n)) : i < j => LastOf(s, n)[i].ts < LastOf(s, n)[j].ts
           /\ \A i \in 1..Len(LastOf(s, n)) : \E k \in 1..Len(s) : LastOf(s, n)[i] = s[k]
           /\ \A k \in 1..Len(s) : LastOf(s, n)[1].ts <= s[k].ts =>
                 \E i \in 1..Len(LastOf(s, n)) : LastOf(s, n)[i].ts = s[k].ts
           /\ Len(LastOf(s, n)) \in Nat \ {0}
           /\ \E k \in 1..Len(s) : LastOf(s, n)[1].ts = s[k].ts
<1> DEFINE r == LastOf(s, n)
           d == Cut(s, n)
<1>1. /\ r \in Seq(Bar) /\ Len(r) = Len(s) - d /\ d \in 0..Len(s) /\ Len(r) > 0
      /\ \A k \in 1..Len(r) : r[k] = s[k + d]
  BY LastOfIs
<1>2. Len(s) \in Nat /\ \A k \in 1..Len(s) : s[k].ts \in Nat
  <2>1. \A k \in 1..Len(s) : s[k] \in Bar
    OBVIOUS
  <2> QED
    BY <2>1, SignalFeedAssumption DEF Bar, Candles
<1> HIDE DEF r, d
<1>3. \A k \in 1..Len(r) : k + d \in 1..Len(s)
  BY <1>1, <1>2
<1>4. \A i, j \in 1..Len(r) : i < j => r[i].ts < r[j].ts
  <2> TAKE i, j \in 1..Len(r)
  <2>1. i < j => i + d < j + d
    BY <1>1
  <2> QED
    BY <1>1, <1>3, <2>1
<1>5. 1 \in 1..Len(r) /\ r[1] = s[1 + d] /\ 1 + d \in 1..Len(s)
  BY <1>1, <1>3
<1>6. ASSUME NEW k \in 1..Len(s), r[1].ts <= s[k].ts
      PROVE  \E i \in 1..Len(r) : r[i].ts = s[k].ts
  <2>1. ~(k < 1 + d)
    <3> SUFFICES ASSUME k < 1 + d PROVE FALSE
      OBVIOUS
    <3>1. s[k].ts < s[1 + d].ts
      BY <1>5
    <3> QED
      BY <1>2, <1>5, <1>6, <3>1
  <2>2. k - d \in 1..Len(r) /\ (k - d) + d = k
    BY <1>1, <1>2, <2>1
  <2> QED
    BY <1>1, <2>2
<1>7. \A i \in 1..Len(r) : \E k \in 1..Len(s) : r[i] = s[k]
  BY <1>1, <1>3
<1>8. \E k \in 1..Len(s) : r[1].ts = s[k].ts
  BY <1>5
<1>9. Len(r) \in Nat \ {0}
  BY <1>1
<1> QED
  BY <1>4, <1>6, <1>7, <1>8, <1>9 DEF r

\* The loop's invariant holds at the start, with no candle seen.
LEMMA LoopHoldsInit == Init => LoopHolds
<1> SUFFICES ASSUME Init PROVE LoopHolds
  OBVIOUS
<1>1. series = <<>> /\ rows = <<>> /\ Len(series) = 0
  BY DEF Init
<1> QED
  BY <1>1 DEF LoopHolds, SeriesRises, SeriesBehind, GapsAreSkipped, SeriesWhole

\* Every step keeps the loop's invariant.
LEMMA LoopHoldsStep == FeedTyped /\ LoopHolds /\ [Next]_vars => LoopHolds'
<1> SUFFICES ASSUME FeedTyped, LoopHolds, [Next]_vars PROVE LoopHolds'
  OBVIOUS
<1>1. TypeOK /\ RowsFollow /\ SeriesRises /\ SeriesBehind /\ GapsAreSkipped /\ SeriesWhole
  BY DEF FeedTyped, LoopHolds
<1>2. /\ MaxCandle \in Nat /\ Candles = 1..MaxCandle /\ BarsKept \in Nat \ {0}
      /\ last \in Nat /\ series \in Seq(Bar) /\ rows \in Seq(Bar)
      /\ Len(series) \in Nat /\ Len(rows) \in Nat
  BY <1>1, SignalFeedAssumption DEF TypeOK, Candles
<1>3. \A b \in Bar : b.ts \in Candles /\ b.ts \in Nat
  BY <1>2 DEF Bar
<1>4. /\ \A i \in 1..Len(rows) : rows[i] \in Bar /\ rows[i].ts \in Candles /\ rows[i].ts \in Nat
      /\ \A i \in 1..Len(series) : series[i] \in Bar /\ series[i].ts \in Candles /\ series[i].ts \in Nat
  <2>1. \A i \in 1..Len(rows) : rows[i] \in Bar
    BY <1>2
  <2>2. \A i \in 1..Len(series) : series[i] \in Bar
    BY <1>2
  <2> QED
    BY <1>3, <2>1, <2>2
<1>5. rows # <<>> => /\ Head(rows) = rows[1] /\ 1 \in 1..Len(rows) /\ Len(rows) > 0
                     /\ (Tail(rows) # <<>> => 2 \in 1..Len(rows) /\ Tail(rows)[1] = rows[2]
                                               /\ rows[2].ts = rows[1].ts + 1)
  <2> SUFFICES ASSUME rows # <<>>
               PROVE /\ Head(rows) = rows[1] /\ 1 \in 1..Len(rows) /\ Len(rows) > 0
                     /\ (Tail(rows) # <<>> => 2 \in 1..Len(rows) /\ Tail(rows)[1] = rows[2]
                                               /\ rows[2].ts = rows[1].ts + 1)
    OBVIOUS
  <2>1. Head(rows) = rows[1] /\ 1 \in 1..Len(rows) /\ Len(rows) > 0
    BY <1>2
  <2>2. ASSUME Tail(rows) # <<>>
        PROVE  2 \in 1..Len(rows) /\ Tail(rows)[1] = rows[2]
    BY <1>2, <2>2
  <2>3. ASSUME 2 \in 1..Len(rows) PROVE rows[2].ts = rows[1].ts + 1
    <3>1. rows[2].ts = rows[1].ts + 2 - 1 /\ rows[1].ts \in Nat
      BY <1>1, <1>4, <2>1, <2>3 DEF RowsFollow
    <3> QED
      BY <3>1
  <2> QED
    BY <2>1, <2>2, <2>3
\* The series and the last candle are as before.
<1>6. ASSUME series' = series, last' = last PROVE SeriesRises' /\ SeriesBehind'
  BY <1>1, <1>6 DEF SeriesRises, SeriesBehind
<1>7. ASSUME series' = series, last' = last, skipped \subseteq skipped' PROVE SeriesWhole'
  BY <1>1, <1>7 DEF SeriesWhole
<1>8. ASSUME series' = series, last' = last, skipped' = skipped, phase' = phase, rows' = rows
      PROVE  LoopHolds'
  <2>1. GapsAreSkipped'
    BY <1>1, <1>8 DEF GapsAreSkipped
  <2> QED
    BY <1>6, <1>7, <1>8, <2>1 DEF LoopHolds
<1>9. ASSUME series' = series, last' = last, skipped' = skipped, phase' # "ingest"
      PROVE  LoopHolds'
  <2>1. GapsAreSkipped'
    BY <1>9 DEF GapsAreSkipped
  <2> QED
    BY <1>6, <1>7, <1>9, <2>1 DEF LoopHolds
<1>10. CASE Tick
  BY <1>8, <1>10, Zenon DEF Tick, loopVars
<1>11. CASE Fetch
  <2>1. phase' = phase /\ phase # "ingest" /\ UNCHANGED <<series, last, skipped>>
    BY <1>11, Zenon DEF Fetch, LoopFree
  <2> QED
    BY <1>9, <2>1
<1>12. CASE FetchFails
  <2>1. phase' = "poll" /\ UNCHANGED <<series, last, skipped>>
    BY <1>12, Zenon DEF FetchFails
  <2> QED
    BY <1>9, <2>1
<1>13. CASE Prime
  <2>1. /\ rows # <<>> /\ last' = rows[Len(rows)].ts /\ series' = LastOf(rows, BarsKept) /\ phase' = "poll"
    BY <1>13, Zenon DEF Prime
  <2>2. /\ Len(rows) > 0 /\ rows[1].ts \in Nat \ {0}
        /\ \A i \in 1..Len(rows) : rows[i].ts = rows[1].ts + i - 1
    BY <1>1, <1>2, <1>4, <1>5, <2>1 DEF RowsFollow
  <2>3. \A i, j \in 1..Len(rows) : i < j => rows[i].ts < rows[j].ts
    <3> TAKE i, j \in 1..Len(rows)
    <3>1. rows[i].ts = rows[1].ts + i - 1 /\ rows[j].ts = rows[1].ts + j - 1
      BY <2>2
    <3> QED
      BY <2>2, <3>1
  <2>4. /\ \A i, j \in 1..Len(series') : i < j => series'[i].ts < series'[j].ts
        /\ \A i \in 1..Len(series') : \E k \in 1..Len(rows) : series'[i] = rows[k]
        /\ \A k \in 1..Len(rows) : series'[1].ts <= rows[k].ts =>
              \E i \in 1..Len(series') : series'[i].ts = rows[k].ts
        /\ \E k \in 1..Len(rows) : series'[1].ts = rows[k].ts
    <3> DEFINE r == LastOf(rows, BarsKept)
    <3>1. /\ \A i, j \in 1..Len(r) : i < j => r[i].ts < r[j].ts
          /\ \A i \in 1..Len(r) : \E k \in 1..Len(rows) : r[i] = rows[k]
          /\ \A k \in 1..Len(rows) : r[1].ts <= rows[k].ts =>
                \E i \in 1..Len(r) : r[i].ts = rows[k].ts
          /\ \E k \in 1..Len(rows) : r[1].ts = rows[k].ts
      BY <1>2, <2>2, <2>3, CutRises
    <3> HIDE DEF r
    <3>2. series' = r
      BY <2>1 DEF r
    <3> QED
      BY <3>1, <3>2
  <2>5. last' = rows[1].ts + Len(rows) - 1
    <3>1. Len(rows) \in 1..Len(rows)
      BY <1>2, <2>2
    <3> QED
      BY <2>1, <2>2, <3>1
  <2>6. \A k \in 1..Len(rows) : rows[k].ts <= last' /\ last' > 0
    <3> TAKE k \in 1..Len(rows)
    <3> DEFINE first == rows[1].ts
    <3>1. rows[k].ts = first + k - 1 /\ last' = first + Len(rows) - 1 /\ first \in Nat \ {0} /\ Len(rows) \in Nat
      BY <1>2, <2>2, <2>5
    <3> HIDE DEF first
    <3>2. first + k - 1 <= first + Len(rows) - 1 /\ first + Len(rows) - 1 > 0
      BY <3>1
    <3> QED
      BY <3>1, <3>2
  <2>7. SeriesBehind'
    BY <2>4, <2>6 DEF SeriesBehind
  <2>8. SeriesWhole'
    <3> SUFFICES ASSUME NEW c \in Candles, series'[1].ts <= c, c <= last'
                 PROVE  \E i \in 1..Len(series') : series'[i].ts = c
      BY DEF SeriesWhole
    <3>1. PICK k \in 1..Len(rows) : series'[1].ts = rows[k].ts
      BY <2>4
    <3>2. rows[1].ts <= c
      <4>1. rows[k].ts = rows[1].ts + k - 1
        BY <2>2
      <4> QED
        BY <1>2, <2>2, <3>1, <4>1
    <3>3. c - rows[1].ts + 1 \in 1..Len(rows)
      BY <1>2, <2>2, <2>5, <3>2
    <3>4. rows[c - rows[1].ts + 1].ts = rows[1].ts + (c - rows[1].ts + 1) - 1
      BY <2>2, <3>3
    <3>5. rows[1].ts + (c - rows[1].ts + 1) - 1 = c
      BY <1>2, <2>2
    <3> QED
      BY <2>4, <3>3, <3>4, <3>5
  <2> QED
    BY <2>1, <2>4, <2>7, <2>8 DEF LoopHolds, SeriesRises, GapsAreSkipped
<1>14. CASE StartIngest
  <2>1. /\ skipped' = skipped \union {c \in Candles : last > 0 /\ last < c /\ c < rows[1].ts}
        /\ UNCHANGED <<rows, last, series>>
    BY <1>14, Zenon DEF StartIngest
  <2>2. GapsAreSkipped'
    BY <2>1 DEF GapsAreSkipped
  <2> QED
    BY <1>6, <1>7, <2>1, <2>2 DEF LoopHolds
<1>15. CASE PassOver
  <2>1. /\ rows # <<>> /\ rows' = Tail(rows) /\ ~(rows[1].ts > last)
        /\ UNCHANGED <<phase, last, series, skipped>>
    BY <1>5, <1>15, Zenon DEF PassOver, New
  <2>2. GapsAreSkipped'
    <3> SUFFICES ASSUME rows' # <<>>, NEW c \in Candles, last < c, c < rows'[1].ts PROVE FALSE
      BY <2>1 DEF GapsAreSkipped
    <3>1. rows'[1].ts = rows[1].ts + 1 /\ rows[1].ts \in Nat
      BY <1>4, <1>5, <2>1
    <3> QED
      BY <1>2, <2>1, <3>1
  <2> QED
    BY <1>6, <1>7, <2>1, <2>2 DEF LoopHolds
<1>16. CASE EndIngest
  <2>1. phase' = "poll" /\ UNCHANGED <<series, last, skipped>>
    BY <1>16, Zenon DEF EndIngest
  <2> QED
    BY <1>9, <2>1
<1>17. ASSUME NEW valid \in BOOLEAN, IngestBar(valid) PROVE LoopHolds'
  <2>1. /\ phase = "ingest" /\ phase' = phase
        /\ rows # <<>> /\ rows[1].ts > last /\ rows' = Tail(rows) /\ last' = rows[1].ts
    BY <1>5, <1>17, Zenon DEF IngestBar, New
  <2>2. rows[1] \in Bar /\ rows[1].ts \in Candles /\ rows[1].ts \in Nat /\ last' \in Nat \ {0} /\ last < last'
    BY <1>2, <1>4, <1>5, <2>1
  <2>3. GapsAreSkipped'
    <3> SUFFICES ASSUME rows' # <<>>, NEW c \in Candles, last' < c, c < rows'[1].ts PROVE FALSE
      BY DEF GapsAreSkipped
    <3>1. rows'[1].ts = rows[1].ts + 1
      BY <1>5, <2>1
    <3> QED
      BY <1>2, <2>1, <2>2, <3>1
  \* What the old series says of the candles up to the new one.
  <2>4. ASSUME series # <<>>, NEW c \in Candles, series[1].ts <= c, c < last'
        PROVE  c \in skipped \/ \E i \in 1..Len(series) : series[i].ts = c
    <3>1. 1 \in 1..Len(series)
      BY <1>2, <2>4
    <3>2. last > 0
      BY <1>1, <3>1 DEF SeriesBehind
    <3>3. CASE c <= last
      BY <1>1, <2>4, <3>3 DEF SeriesWhole
    <3>4. CASE last < c
      BY <1>1, <2>1, <2>4, <3>2, <3>4 DEF GapsAreSkipped
    <3> QED
      BY <1>2, <3>3, <3>4
  <2>5. CASE ~valid
    <3>1. series' = series /\ skipped' = skipped \union {rows[1].ts}
      BY <1>5, <1>17, <2>1, <2>5 DEF IngestBar
    <3>2. SeriesRises'
      BY <1>1, <3>1 DEF SeriesRises
    <3>3. SeriesBehind'
      <4> SUFFICES ASSUME NEW i \in 1..Len(series) PROVE series[i].ts <= last' /\ last' > 0
        BY <3>1 DEF SeriesBehind
      <4>1. series[i].ts <= last /\ series[i].ts \in Nat
        BY <1>1, <1>4 DEF SeriesBehind
      <4> QED
        BY <1>2, <2>2, <4>1
    <3>4. SeriesWhole'
      <4> SUFFICES ASSUME series # <<>>, NEW c \in Candles, series[1].ts <= c, c <= last'
                   PROVE  c \in skipped' \/ \E i \in 1..Len(series) : series[i].ts = c
        BY <3>1 DEF SeriesWhole
      <4>1. CASE c = last'
        BY <2>1, <3>1, <4>1
      <4>2. CASE c # last'
        <5>1. c < last'
          BY <1>2, <2>2, <4>2
        <5> QED
          BY <2>4, <3>1, <5>1
      <4> QED
        BY <4>1, <4>2
    <3> QED
      BY <2>3, <3>2, <3>3, <3>4 DEF LoopHolds
  <2>6. CASE valid
    <3> DEFINE pushed == Append(series, rows[1])
    <3>1. series' = LastOf(pushed, BarsKept) /\ skipped' = skipped
      BY <1>5, <1>17, <2>1, <2>6 DEF IngestBar
    <3>2. /\ pushed \in Seq(Bar) /\ Len(pushed) = Len(series) + 1
          /\ pushed[Len(series) + 1] = rows[1]
          /\ \A i \in 1..Len(series) : pushed[i] = series[i]
      BY <1>2, <2>2
    <3> HIDE DEF pushed
    <3>3. \A i \in 1..Len(series) : pushed[i].ts <= last /\ pushed[i].ts < last'
      <4> TAKE i \in 1..Len(series)
      <4>1. pushed[i].ts <= last /\ pushed[i].ts \in Nat
        BY <1>1, <1>4, <3>2 DEF SeriesBehind
      <4> QED
        BY <1>2, <2>2, <4>1
    <3>4. \A i \in 1..Len(pushed) : i \in 1..Len(series) \/ (i = Len(series) + 1 /\ pushed[i].ts = last')
      BY <1>2, <2>1, <3>2
    <3>5. \A i, j \in 1..Len(pushed) : i < j => pushed[i].ts < pushed[j].ts
      <4> SUFFICES ASSUME NEW i \in 1..Len(pushed), NEW j \in 1..Len(pushed), i < j
                   PROVE  pushed[i].ts < pushed[j].ts
        OBVIOUS
      <4>1. i \in 1..Len(series)
        BY <1>2, <3>2
      <4>2. CASE j \in 1..Len(series)
        BY <1>1, <3>2, <4>1, <4>2 DEF SeriesRises
      <4>3. CASE j \notin 1..Len(series)
        BY <3>3, <3>4, <4>1, <4>3
      <4> QED
        BY <4>2, <4>3
    <3>6. /\ \A i, j \in 1..Len(series') : i < j => series'[i].ts < series'[j].ts
          /\ \A i \in 1..Len(series') : \E k \in 1..Len(pushed) : series'[i] = pushed[k]
          /\ \A k \in 1..Len(pushed) : series'[1].ts <= pushed[k].ts =>
                \E i \in 1..Len(series') : series'[i].ts = pushed[k].ts
          /\ \E k \in 1..Len(pushed) : series'[1].ts = pushed[k].ts
      <4>1. Len(pushed) > 0
        BY <1>2, <3>2
      <4> QED
        <5> DEFINE r == LastOf(pushed, BarsKept)
        <5>1. /\ \A i, j \in 1..Len(r) : i < j => r[i].ts < r[j].ts
              /\ \A i \in 1..Len(r) : \E k \in 1..Len(pushed) : r[i] = pushed[k]
              /\ \A k \in 1..Len(pushed) : r[1].ts <= pushed[k].ts =>
                    \E i \in 1..Len(r) : r[i].ts = pushed[k].ts
              /\ \E k \in 1..Len(pushed) : r[1].ts = pushed[k].ts
          BY <1>2, <3>2, <3>5, <4>1, CutRises
        <5> HIDE DEF r
        <5>2. series' = r
          BY <3>1 DEF r
        <5> QED
          BY <5>1, <5>2
    <3>7. SeriesBehind'
      <4>1. \A k \in 1..Len(pushed) : pushed[k].ts <= last' /\ last' > 0
        <5> TAKE k \in 1..Len(pushed)
        <5>1. CASE k \in 1..Len(series)
          <6>1. pushed[k].ts < last' /\ pushed[k].ts \in Nat
            BY <1>4, <3>2, <3>3, <5>1
          <6> QED
            BY <2>2, <6>1
        <5>2. CASE k \notin 1..Len(series)
          BY <2>2, <3>4, <5>2
        <5> QED
          BY <5>1, <5>2
      <4> QED
        BY <3>6, <4>1 DEF SeriesBehind
    <3>8. SeriesWhole'
      <4> SUFFICES ASSUME NEW c \in Candles, series'[1].ts <= c, c <= last'
                   PROVE  c \in skipped' \/ \E i \in 1..Len(series') : series'[i].ts = c
        BY DEF SeriesWhole
      <4>1. CASE c = last'
        <5>1. Len(series) + 1 \in 1..Len(pushed) /\ pushed[Len(series) + 1].ts = c
          BY <1>2, <2>1, <3>2, <4>1
        <5> QED
          BY <3>6, <5>1
      <4>2. CASE c # last'
        <5>1. c < last'
          BY <1>2, <2>2, <4>2
        <5>2. PICK k \in 1..Len(pushed) : series'[1].ts = pushed[k].ts
          BY <3>6
        <5>3. k \in 1..Len(series) /\ pushed[k] = series[k]
          <6>1. pushed[k].ts < last'
            <7>1. pushed[k].ts \in Nat /\ pushed[k].ts <= c /\ c \in Nat
              <8>1. pushed[k] \in Bar
                BY <3>2
              <8> QED
                BY <1>2, <1>3, <5>2, <8>1
            <7> QED
              BY <2>2, <5>1, <7>1
          <6>2. pushed[k].ts # last'
            BY <2>2, <6>1
          <6> QED
            BY <3>2, <3>4, <6>2
        <5>4. series # <<>> /\ series[1].ts <= c
          <6>1. 1 \in 1..Len(series) /\ 1 <= k
            BY <1>2, <5>3
          <6>2. series[1].ts <= series[k].ts
            <7>1. CASE k = 1
              BY <1>4, <6>1, <7>1
            <7>2. CASE k # 1
              <8>1. 1 < k
                BY <5>3, <6>1, <7>2
              <8>2. series[1].ts < series[k].ts
                BY <1>1, <5>3, <6>1, <8>1 DEF SeriesRises
              <8> QED
                BY <1>4, <5>3, <6>1, <8>2
            <7> QED
              BY <7>1, <7>2
          <6>3. series[1].ts \in Nat /\ series[k].ts \in Nat /\ c \in Nat /\ series[k].ts <= c
            BY <1>2, <1>4, <5>2, <5>3, <6>1
          <6>4. series[1].ts <= c
            BY <6>2, <6>3
          <6> QED
            BY <6>1, <6>4
        <5>5. CASE c \in skipped
          BY <3>1, <5>5
        <5>6. CASE \E i \in 1..Len(series) : series[i].ts = c
          <6>1. PICK i \in 1..Len(series) : series[i].ts = c
            BY <5>6
          <6>2. i \in 1..Len(pushed) /\ pushed[i].ts = c
            BY <1>2, <3>2, <6>1
          <6> QED
            BY <3>6, <6>2
        <5> QED
          BY <2>4, <5>1, <5>4, <5>5, <5>6
      <4> QED
        BY <4>1, <4>2
    <3> QED
      BY <2>3, <3>6, <3>7, <3>8 DEF LoopHolds, SeriesRises
  <2> QED
    BY <2>5, <2>6
<1>18. ASSUME NEW s \in Runners, NothingMet(s) \/ Leaves(s) \/ Enters(s) PROVE LoopHolds'
  BY <1>8, <1>18, Zenon DEF NothingMet, Leaves, Enters, Handled
<1>19. ASSUME NEW e \in ToSet(hub), UpdateSignal(e) PROVE LoopHolds'
  BY <1>8, <1>19, Zenon DEF UpdateSignal, loopVars
<1>20. CASE Restart
  <2>1. phase' = "prime" /\ series' = <<>> /\ Len(series') = 0
    BY <1>20 DEF Restart
  <2> QED
    BY <2>1 DEF LoopHolds, SeriesRises, SeriesBehind, GapsAreSkipped, SeriesWhole
<1>21. CASE UNCHANGED vars
  BY <1>8, <1>21, Zenon DEF vars, loopVars
<1> QED
  BY <1>10, <1>11, <1>12, <1>13, <1>14, <1>15, <1>16, <1>17, <1>18, <1>19, <1>20, <1>21 DEF Next, Evaluate

\* The loop's invariant holds in every state.
LEMMA LoopInvariant == Spec => [](FeedTyped /\ LoopHolds)
<1> QED
  BY FeedTypedInit, FeedTypedStep, LoopHoldsInit, LoopHoldsStep, PTL DEF Spec

\* The series a strategy sees never goes back in time and holds no candle
\* twice, whatever the answers of the exchange overlap with.
THEOREM SeriesStaysInOrder == Spec => []SeriesInOrder
<1>1. ASSUME FeedTyped, LoopHolds PROVE SeriesInOrder
  <2> SUFFICES ASSUME NEW i \in 2..Len(series) PROVE series[i - 1].ts < series[i].ts
    BY DEF SeriesInOrder
  <2>1. series \in Seq(Bar)
    BY <1>1 DEF FeedTyped, TypeOK
  <2>2. i \in 1..Len(series) /\ i - 1 \in 1..Len(series) /\ i - 1 < i
    BY <2>1
  <2> QED
    BY <1>1, <2>2 DEF LoopHolds, SeriesRises
<1> QED
  BY <1>1, LoopInvariant, PTL

\* No candle between the first and the last of the series is missing from it,
\* but for those known to be corrupt or to have left the exchange's window.
THEOREM NoCandleIsLost == Spec => []NothingLost
<1>1. ASSUME FeedTyped, LoopHolds PROVE NothingLost
  <2> SUFFICES ASSUME series # <<>>, NEW c \in Candles, series[1].ts <= c, c <= last
               PROVE  c \in skipped \/ \E b \in ToSet(series) : b.ts = c
    BY DEF NothingLost
  <2>1. series \in Seq(Bar)
    BY <1>1 DEF FeedTyped, TypeOK
  <2>2. c \in skipped \/ \E i \in 1..Len(series) : series[i].ts = c
    BY <1>1 DEF LoopHolds, SeriesWhole
  <2> QED
    BY <2>1, <2>2, MembersOf
<1> QED
  BY <1>1, LoopInvariant, PTL

-----------------------------------------------------------------------------
(***************************************************************************)
(* The hub and the table name a signal once, and a signal that has been    *)
(* published is still in the hub or has left it.                           *)
(***************************************************************************)
HubNamesOnce == \A i, j \in 1..Len(hub) : hub[i].id = hub[j].id => i = j

TableNamesOnce == \A i, j \in 1..Len(table) : table[i] = table[j] => i = j

HubRemembers ==
    \A id \in Ids :
        /\ published[id] > 0 => id \in evicted \/ \E k \in 1..Len(hub) : hub[k].id = id
        /\ published[id] > 1 => id \in evicted

HubHolds == HubNamesOnce /\ TableNamesOnce /\ HubRemembers

\* The ids of the hub, by their places in it.
LEMMA HubIdsAre ==
    ASSUME TypeOK
    PROVE  \A id : id \in HubIds <=> \E k \in 1..Len(hub) : hub[k].id = id
<1>1. \A e : e \in ToSet(hub) <=> \E k \in 1..Len(hub) : hub[k] = e
  BY MembersOf DEF TypeOK
<1> QED
  BY <1>1 DEF HubIds

\* The hub's invariant holds at the start, with no signal published.
LEMMA HubHoldsInit == Init => HubHolds
  BY DEF Init, HubHolds, HubNamesOnce, TableNamesOnce, HubRemembers

\* A signal that a runner sends keeps the hub's invariant (api.on_signal).
LEMMA OnSignalHolds ==
    ASSUME TypeOK, HubHolds, NEW id \in Ids, OnSignal(id)
    PROVE  HubHolds'
<1>1. hub \in Seq(Entry) /\ table \in Seq(Ids) /\ published \in [Ids -> Nat] /\ HubSize \in Nat \ {0}
  BY SignalFeedAssumption DEF TypeOK
<1>2. HubNamesOnce /\ TableNamesOnce /\ HubRemembers
  BY DEF HubHolds
<1>3. CASE id \in HubIds
  <2>1. UNCHANGED <<hub, table, published, evicted>>
    BY <1>3, Zenon DEF OnSignal, hubVars
  <2> QED
    BY <1>2, <2>1 DEF HubHolds, HubNamesOnce, TableNamesOnce, HubRemembers
<1>4. CASE id \notin HubIds
  <2> DEFINE e == [id |-> id, open |-> TRUE]
             pushed == Append(hub, e)
             d == Cut(pushed, HubSize)
             gone == SubSeq(pushed, 1, Len(pushed) - Len(LastOf(pushed, HubSize)))
  <2>1. /\ hub' = LastOf(pushed, HubSize)
        /\ table' = Append(RemoveFirst(table, id), id)
        /\ published' = [published EXCEPT ![id] = @ + 1]
        /\ evicted' = evicted \union {x.id : x \in ToSet(gone)}
    BY <1>4, Zenon DEF OnSignal
  <2>2. e \in Entry /\ e.id = id
    BY DEF Entry
  <2> HIDE DEF e
  <2>3. /\ pushed \in Seq(Entry) /\ Len(hub) \in Nat /\ Len(pushed) = Len(hub) + 1
        /\ pushed[Len(hub) + 1] = e
        /\ \A k \in 1..Len(hub) : pushed[k] = hub[k]
    BY <1>1, <2>2
  <2> HIDE DEF pushed
  <2>4. /\ Len(LastOf(pushed, HubSize)) = Len(pushed) - d /\ d \in 0..Len(pushed)
        /\ \A k \in 1..Len(LastOf(pushed, HubSize)) : LastOf(pushed, HubSize)[k] = pushed[k + d]
    BY <1>1, <2>3, LastOfIs
  <2> HIDE DEF d
  <2>5. /\ Len(hub') = Len(pushed) - d
        /\ \A k \in 1..(Len(pushed) - d) : hub'[k] = pushed[k + d] /\ k + d \in 1..Len(pushed)
    BY <2>1, <2>3, <2>4
  <2>6. \A k \in 1..Len(hub) : hub[k].id # id
    BY <1>4, HubIdsAre
  <2>7. \A i, j \in 1..Len(pushed) : pushed[i].id = pushed[j].id => i = j
    <3> SUFFICES ASSUME NEW i \in 1..Len(pushed), NEW j \in 1..Len(pushed), pushed[i].id = pushed[j].id
                 PROVE  i = j
      OBVIOUS
    <3>1. (i \in 1..Len(hub) \/ i = Len(hub) + 1) /\ (j \in 1..Len(hub) \/ j = Len(hub) + 1)
      BY <2>3
    <3>2. CASE i \in 1..Len(hub) /\ j \in 1..Len(hub)
      BY <1>2, <2>3, <3>2 DEF HubNamesOnce
    <3>3. CASE i \in 1..Len(hub) /\ j = Len(hub) + 1
      BY <2>2, <2>3, <2>6, <3>3
    <3>4. CASE i = Len(hub) + 1 /\ j \in 1..Len(hub)
      BY <2>2, <2>3, <2>6, <3>4
    <3> QED
      BY <3>1, <3>2, <3>3, <3>4
  <2>8. HubNamesOnce'
    <3> SUFFICES ASSUME NEW i \in 1..Len(hub'), NEW j \in 1..Len(hub'), hub'[i].id = hub'[j].id
                 PROVE  i = j
      BY DEF HubNamesOnce
    <3>1. i + d \in 1..Len(pushed) /\ j + d \in 1..Len(pushed) /\ pushed[i + d].id = pushed[j + d].id
      BY <2>5
    <3>2. i + d = j + d
      BY <2>7, <3>1
    <3> QED
      BY <2>4, <3>2
  \* Who is not among the last is among those that went.
  <2>9. \A k \in 1..Len(pushed) : pushed[k].id \in evicted' \/ \E i \in 1..Len(hub') : hub'[i].id = pushed[k].id
    <3> TAKE k \in 1..Len(pushed)
    <3>1. CASE k > d
      <4>1. k - d \in 1..(Len(pushed) - d) /\ (k - d) + d = k
        BY <2>3, <2>4, <3>1
      <4>2. k - d \in 1..Len(hub') /\ hub'[k - d] = pushed[k]
        BY <2>5, <4>1
      <4> QED
        BY <4>2
    <3>2. CASE ~(k > d)
      <4>1. Len(pushed) - Len(LastOf(pushed, HubSize)) = d /\ k \in 1..d
        BY <2>3, <2>4, <3>2
      <4>2. gone = SubSeq(pushed, 1, d)
        BY <4>1
      <4>3. \A i \in 1..d : pushed[i] \in Entry
        BY <2>3, <2>4
      <4>4. gone \in Seq(Entry) /\ Len(gone) = d /\ gone[k] = pushed[k]
        <5>1. /\ SubSeq(pushed, 1, d) \in Seq(Entry)
              /\ Len(SubSeq(pushed, 1, d)) = IF 1 <= d THEN d - 1 + 1 ELSE 0
              /\ \A i \in 1..(d - 1 + 1) : SubSeq(pushed, 1, d)[i] = pushed[1 + i - 1]
          BY <2>3, <2>4, <4>3, SubSeqProperties
        <5>2. k \in 1..(d - 1 + 1) /\ 1 + k - 1 = k /\ 1 <= d /\ d - 1 + 1 = d
          BY <2>4, <4>1
        <5> HIDE DEF gone
        <5> QED
          BY <4>2, <5>1, <5>2
      <4> HIDE DEF gone
      <4>5. pushed[k] \in ToSet(gone)
        BY <4>1, <4>4, MembersOf
      <4> QED
        BY <2>1, <4>5
    <3> QED
      BY <3>1, <3>2
  <2>10. HubRemembers'
    <3> SUFFICES ASSUME NEW x \in Ids
                 PROVE  /\ published'[x] > 0 => x \in evicted' \/ \E k \in 1..Len(hub') : hub'[k].id = x
                        /\ published'[x] > 1 => x \in evicted'
      BY DEF HubRemembers
    <3>1. evicted \subseteq evicted'
      BY <2>1
    <3>2. CASE x = id
      <4>1. published'[x] = published[x] + 1 /\ published[x] \in Nat
        BY <1>1, <2>1, <3>2
      <4>2. Len(hub) + 1 \in 1..Len(pushed) /\ pushed[Len(hub) + 1].id = x
        BY <2>2, <2>3, <3>2
      <4>3. x \in evicted' \/ \E k \in 1..Len(hub') : hub'[k].id = x
        BY <2>9, <4>2
      <4>4. published[x] > 0 => x \in evicted
        BY <1>2, <2>6, <3>2 DEF HubRemembers
      <4>5. published'[x] > 1 => x \in evicted'
        BY <3>1, <4>1, <4>4
      <4> QED
        BY <4>3, <4>5
    <3>3. CASE x # id
      <4>1. published'[x] = published[x]
        BY <1>1, <2>1, <3>3
      <4>2. ASSUME NEW k \in 1..Len(hub), hub[k].id = x
            PROVE  x \in evicted' \/ \E i \in 1..Len(hub') : hub'[i].id = x
        <5>1. k \in 1..Len(pushed) /\ pushed[k].id = x
          BY <2>3, <4>2
        <5> QED
          BY <2>9, <5>1
      <4> QED
        BY <1>2, <3>1, <4>1, <4>2 DEF HubRemembers
    <3> QED
      BY <3>2, <3>3
  <2>11. TableNamesOnce'
    <3> DEFINE r == RemoveFirst(table, id)
    <3>1. r \in Seq(Ids)
      BY <1>1, RemoveFirstIs
    <3>2. /\ \A i, j \in 1..Len(r) : r[i] = r[j] => i = j
          /\ \A i \in 1..Len(r) : r[i] # id
      <4>1. CASE id \notin ToSet(table)
        <5>1. r = table
          BY <1>1, <4>1, RemoveFirstIs
        <5>2. \A i \in 1..Len(table) : table[i] # id
          BY <1>1, <4>1, MembersOf
        <5> QED
          BY <1>2, <5>1, <5>2 DEF TableNamesOnce
      <4>2. CASE id \in ToSet(table)
        <5>1. PICK k \in 1..Len(table) :
                 /\ table[k] = id
                 /\ Len(r) = Len(table) - 1
                 /\ \A j \in 1..(Len(table) - 1) : r[j] = IF j < k THEN table[j] ELSE table[j + 1]
          BY <1>1, <4>2, RemoveFirstIs
        <5> HIDE DEF r
        <5> DEFINE at(j) == IF j < k THEN j ELSE j + 1
        <5>2. \A j \in 1..Len(r) : at(j) \in 1..Len(table) /\ r[j] = table[at(j)] /\ at(j) # k
          <6>1. Len(table) \in Nat
            BY <1>1
          <6> QED
            BY <5>1, <6>1
        <5>3. \A i, j \in 1..Len(r) : at(i) = at(j) => i = j
          BY <5>1
        <5> HIDE DEF at
        <5> QED
          BY <1>2, <5>1, <5>2, <5>3 DEF TableNamesOnce
      <4> QED
        BY <4>1, <4>2
    <3> HIDE DEF r
    <3>3. /\ Len(table') = Len(r) + 1 /\ Len(r) \in Nat /\ table'[Len(r) + 1] = id
          /\ \A i \in 1..Len(r) : table'[i] = r[i]
      <4>1. table' = Append(r, id)
        BY <2>1 DEF r
      <4> QED
        BY <3>1, <4>1
    <3> SUFFICES ASSUME NEW i \in 1..Len(table'), NEW j \in 1..Len(table'), table'[i] = table'[j]
                 PROVE  i = j
      BY DEF TableNamesOnce
    <3>4. (i \in 1..Len(r) \/ i = Len(r) + 1) /\ (j \in 1..Len(r) \/ j = Len(r) + 1)
      BY <3>3
    <3> QED
      BY <3>2, <3>3, <3>4
  <2> QED
    BY <2>8, <2>10, <2>11 DEF HubHolds
<1> QED
  BY <1>3, <1>4

\* A change of status moves an entry and renames none.
LEMMA UpdateHolds ==
    ASSUME TypeOK, HubHolds, NEW e \in ToSet(hub), UpdateSignal(e)
    PROVE  HubHolds'
<1> DEFINE r == RemoveFirst(hub, e)
           e2 == [e EXCEPT !.open = FALSE]
<1>1. /\ hub' = <<e2>> \o r
      /\ UNCHANGED <<table, published, evicted>>
  BY Zenon DEF UpdateSignal
<1>2. hub \in Seq(Entry) /\ Len(hub) \in Nat
  BY DEF TypeOK
<1>3. HubNamesOnce /\ TableNamesOnce /\ HubRemembers
  BY DEF HubHolds
<1>4. e \in Entry /\ e2 \in Entry /\ e2.id = e.id
  <2>1. e \in Entry
    BY <1>2, MembersOf
  <2> QED
    BY <2>1 DEF Entry
<1>5. PICK k \in 1..Len(hub) :
         /\ hub[k] = e
         /\ Len(r) = Len(hub) - 1
         /\ \A j \in 1..(Len(hub) - 1) : r[j] = IF j < k THEN hub[j] ELSE hub[j + 1]
  BY <1>2, RemoveFirstIs
<1>6. r \in Seq(Entry)
  BY <1>2, RemoveFirstIs
<1> HIDE DEF r, e2
<1>7. /\ Len(hub') = Len(hub) /\ hub'[1] = e2
      /\ \A j \in 2..Len(hub) : hub'[j] = r[j - 1]
  <2>1. <<e2>> \in Seq(Entry) /\ Len(<<e2>>) = 1 /\ <<e2>>[1] = e2
    BY <1>4
  <2>2. /\ Len(<<e2>> \o r) = 1 + (Len(hub) - 1)
        /\ \A j \in 1..(1 + (Len(hub) - 1)) :
              (<<e2>> \o r)[j] = IF j <= 1 THEN <<e2>>[j] ELSE r[j - 1]
    BY <1>5, <1>6, <2>1, ConcatProperties
  <2> QED
    BY <1>1, <1>2, <1>5, <2>1, <2>2
\* The place in the old hub of who is at j in the new one.
<1> DEFINE from(j) == IF j = 1 THEN k ELSE IF j - 1 < k THEN j - 1 ELSE j
<1>8. \A j \in 1..Len(hub) : from(j) \in 1..Len(hub) /\ hub'[j].id = hub[from(j)].id
  <2> TAKE j \in 1..Len(hub)
  <2>1. CASE j = 1
    BY <1>4, <1>5, <1>7, <2>1
  <2>2. CASE j # 1
    <3>1. j \in 2..Len(hub) /\ j - 1 \in 1..(Len(hub) - 1) /\ (j - 1) + 1 = j
      BY <1>2, <2>2
    <3>2. hub'[j] = IF j - 1 < k THEN hub[j - 1] ELSE hub[j]
      BY <1>5, <1>7, <3>1
    <3>3. from(j) \in 1..Len(hub)
      BY <1>2, <3>1
    <3> QED
      BY <2>2, <3>2, <3>3
  <2> QED
    BY <2>1, <2>2
<1>9. \A i, j \in 1..Len(hub) : from(i) = from(j) => i = j
  BY <1>2, <1>5
<1>10. \A i \in 1..Len(hub) : \E j \in 1..Len(hub) : from(j) = i
  <2> TAKE i \in 1..Len(hub)
  <2>1. CASE i = k
    BY <1>2, <2>1
  <2>2. CASE i < k
    <3>1. i + 1 \in 1..Len(hub) /\ from(i + 1) = i
      BY <1>2, <2>2
    <3> QED
      BY <3>1
  <2>3. CASE i > k
    <3>1. from(i) = i
      BY <1>2, <2>3
    <3> QED
      BY <3>1
  <2> QED
    BY <1>2, <2>1, <2>2, <2>3
<1> HIDE DEF from
<1>11. HubNamesOnce'
  <2> SUFFICES ASSUME NEW i \in 1..Len(hub), NEW j \in 1..Len(hub), hub'[i].id = hub'[j].id PROVE i = j
    BY <1>7 DEF HubNamesOnce
  <2>1. from(i) \in 1..Len(hub) /\ from(j) \in 1..Len(hub) /\ hub[from(i)].id = hub[from(j)].id
    BY <1>8
  <2>2. from(i) = from(j)
    BY <1>3, <2>1 DEF HubNamesOnce
  <2> QED
    BY <1>9, <2>2
<1>12. HubRemembers'
  <2> SUFFICES ASSUME NEW id \in Ids, NEW i \in 1..Len(hub), hub[i].id = id
               PROVE  \E j \in 1..Len(hub') : hub'[j].id = id
    BY <1>1, <1>3 DEF HubRemembers
  <2> QED
    <3>1. PICK j \in 1..Len(hub) : from(j) = i
      BY <1>10
    <3>2. hub'[j].id = id
      BY <1>8, <3>1
    <3> QED
      BY <1>7, <3>2
<1> QED
  BY <1>1, <1>3, <1>11, <1>12 DEF HubHolds, TableNamesOnce

\* A new process reads the last signals of the table.
LEMMA RestartHolds ==
    ASSUME TypeOK, HubHolds, Restart
    PROVE  HubHolds'
<1> DEFINE kept == LastOf(table, HubSize)
           d == Cut(table, HubSize)
<1>1. /\ hub' = [i \in 1..Len(kept) |-> [id |-> kept[i], open |-> TRUE]]
      /\ evicted' = evicted \union (HubIds \ ToSet(kept))
      /\ UNCHANGED <<table, published>>
  BY Zenon DEF Restart
<1>2. TableNamesOnce /\ HubRemembers
  BY DEF HubHolds
<1>3. table \in Seq(Ids) /\ HubSize \in Nat \ {0}
  BY SignalFeedAssumption DEF TypeOK
<1>4. /\ kept \in Seq(Ids) /\ Len(kept) = Len(table) - d /\ d \in 0..Len(table)
      /\ \A k \in 1..Len(kept) : kept[k] = table[k + d]
  BY <1>3, LastOfIs
<1> HIDE DEF kept, d
<1>5. Len(hub') = Len(kept) /\ \A i \in 1..Len(kept) : hub'[i].id = kept[i]
  <2>1. Len(kept) \in Nat
    BY <1>4
  <2> QED
    BY <1>1, <2>1
<1>6. HubNamesOnce'
  <2> SUFFICES ASSUME NEW i \in 1..Len(kept), NEW j \in 1..Len(kept), kept[i] = kept[j] PROVE i = j
    BY <1>5 DEF HubNamesOnce
  <2>1. i + d \in 1..Len(table) /\ j + d \in 1..Len(table) /\ table[i + d] = table[j + d]
    BY <1>3, <1>4
  <2>2. i + d = j + d
    BY <1>2, <2>1 DEF TableNamesOnce
  <2> QED
    BY <1>4, <2>2
<1>7. HubRemembers'
  <2> SUFFICES ASSUME NEW id \in Ids
               PROVE  /\ published[id] > 0 => id \in evicted' \/ \E k \in 1..Len(hub') : hub'[k].id = id
                      /\ published[id] > 1 => id \in evicted'
    BY <1>1 DEF HubRemembers
  <2>1. evicted \subseteq evicted'
    BY <1>1
  <2>2. ASSUME id \in HubIds PROVE id \in evicted' \/ \E k \in 1..Len(hub') : hub'[k].id = id
    <3>1. CASE id \in ToSet(kept)
      <4>1. PICK k \in 1..Len(kept) : kept[k] = id
        BY <1>4, <3>1, MembersOf
      <4> QED
        BY <1>5, <4>1
    <3>2. CASE id \notin ToSet(kept)
      BY <1>1, <2>2, <3>2
    <3> QED
      BY <3>1, <3>2
  <2>3. (\E k \in 1..Len(hub) : hub[k].id = id) => id \in HubIds
    BY HubIdsAre
  <2> QED
    BY <1>2, <2>1, <2>2, <2>3 DEF HubRemembers
<1> QED
  BY <1>1, <1>2, <1>6, <1>7 DEF HubHolds, TableNamesOnce

\* Every step keeps the hub's invariant.
LEMMA HubHoldsStep == FeedTyped /\ HubHolds /\ [Next]_vars => HubHolds'
<1> SUFFICES ASSUME FeedTyped, HubHolds, [Next]_vars PROVE HubHolds'
  OBVIOUS
<1>1. TypeOK /\ RowsFollow
  BY DEF FeedTyped
<1>2. ASSUME UNCHANGED hubVars PROVE HubHolds'
  BY <1>2 DEF hubVars, HubHolds, HubNamesOnce, TableNamesOnce, HubRemembers
<1>3. CASE Tick \/ Fetch \/ FetchFails \/ Prime \/ StartIngest \/ PassOver \/ EndIngest
  BY <1>2, <1>3, Zenon DEF Tick, Fetch, FetchFails, Prime, StartIngest, PassOver, EndIngest
<1>4. ASSUME NEW valid \in BOOLEAN, IngestBar(valid) PROVE HubHolds'
  BY <1>2, <1>4, Zenon DEF IngestBar
<1>5. ASSUME NEW s \in Runners, NothingMet(s) \/ Leaves(s) PROVE HubHolds'
  BY <1>2, <1>5, Zenon DEF NothingMet, Leaves
<1>6. ASSUME NEW s \in Runners, Enters(s) PROVE HubHolds'
  <2>1. todo # <<>> /\ OnSignal([runner |-> s, candle |-> Seen])
    BY <1>6, Zenon DEF Enters, Handled
  <2>2. series[Len(series)] \in Bar
    BY <1>1, <2>1 DEF TypeOK, RowsFollow
  <2>3. [runner |-> s, candle |-> Seen] \in Ids
    BY <2>2 DEF Ids, Seen, Bar
  <2> QED
    BY <1>1, <2>1, <2>3, OnSignalHolds
<1>7. ASSUME NEW e \in ToSet(hub), UpdateSignal(e) PROVE HubHolds'
  BY <1>1, <1>7, UpdateHolds
<1>8. CASE Restart
  BY <1>1, <1>8, RestartHolds
<1>9. CASE UNCHANGED vars
  BY <1>2, <1>9, Zenon DEF vars
<1> QED
  BY <1>3, <1>4, <1>5, <1>6, <1>7, <1>8, <1>9 DEF Next, Evaluate

\* The hub names a signal once, and a signal is published again only after it
\* had left the hub, over restarts and candles ingested twice.
THEOREM PublishedOnce == Spec => []OncePublished
<1>1. ASSUME HubHolds PROVE OncePublished
  BY <1>1 DEF HubHolds, HubNamesOnce, HubRemembers, OncePublished
<1> QED
  BY <1>1, FeedTypedInit, FeedTypedStep, HubHoldsInit, HubHoldsStep, PTL DEF Spec
=============================================================================
