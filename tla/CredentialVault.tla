--------------------------- MODULE CredentialVault ---------------------------
(***************************************************************************)
(* vault.py and what is built from it.  The vault is one encrypted file    *)
(* and its key another; save, delete and rotate_key read the first and     *)
(* write it back, on pool threads and without a lock.  The endpoints that  *)
(* change a provider's credentials then build a new MarketRouter, and a    *)
(* start builds one as well.                                               *)
(*                                                                         *)
(* Opening a file to write it empties it first, so a crash between the two *)
(* leaves a torn file.                                                     *)
(***************************************************************************)
EXTENDS Naturals, FiniteSets

CONSTANTS
    Threads,        \* pool threads that run these endpoints
    Names,          \* entries of the vault: "md_<provider>"
    Layered,        \* those a provider is built with: dhan, upstox, angel, alpaca
    MaxRotations,   \* bound of the model: times the key is rotated
    MaxCalls,       \* bound of the model: calls of the endpoints
    MaxStarts       \* bound of the model: times the process is started

ASSUME CredentialVaultAssumption ==
    /\ Layered \subseteq Names
    /\ MaxRotations \in Nat /\ MaxCalls \in Nat /\ MaxStarts \in Nat \ {0}

VARIABLES
    up,             \* the process runs
    vaultFile,      \* vault.json: [key, names], "absent" or "torn"
    keyFile,        \* data/.secret: a key or Torn
    fernet,         \* _fernet: the key in memory
    call,           \* call[t]: what thread t does: its operation and next step
    doc,            \* doc[t]: the entries it read, or the router it built
    router,         \* entries the market router's providers were built with
    rotations, calls, starts,   \* counters of the model
    wanted,         \* history: names saved and not deleted since, by call order
    overlapped,     \* history: two calls were under way at the same time
    tornBy          \* history: a crash came while a file was rewritten

fileVars == <<vaultFile, keyFile>>
memoryVars == <<up, fernet, router>>
callVars == <<call, doc>>
countVars == <<rotations, calls, starts>>
historyVars == <<wanted, overlapped, tornBy>>
vaultVars == <<fileVars, memoryVars, callVars, countVars, historyVars>>

Torn == 0
Keys == 1..(MaxRotations + 1)
Files == [key : Keys, names : SUBSET Names]
Absent == [key |-> 0, names |-> {}]
TornFile == [key |-> 0, names |-> Names]
Idle == [op |-> "none", name |-> "none", step |-> "none"]
Steps == {"read", "truncate", "write", "swap", "truncateKey", "writeKey", "build", "assign"}
Calls == [op : {"save", "delete"}, name : Names, step : Steps]
            \union [op : {"rotate"}, name : {"none"}, step : Steps]

VaultTypeOK ==
    /\ up \in BOOLEAN
    /\ vaultFile \in Files \union {Absent, TornFile}
    /\ keyFile \in Keys \union {Torn}
    /\ fernet \in Keys
    /\ call \in [Threads -> Calls \union {Idle}]
    /\ doc \in [Threads -> SUBSET Names]
    /\ router \subseteq Names
    /\ rotations \in 0..MaxRotations
    /\ calls \in 0..MaxCalls
    /\ starts \in 0..MaxStarts
    /\ wanted \subseteq Names
    /\ overlapped \in BOOLEAN
    /\ tornBy \in BOOLEAN

VaultInit ==
    /\ up = TRUE
    /\ vaultFile = Absent
    /\ keyFile = 1
    /\ fernet = 1
    /\ call = [t \in Threads |-> Idle]
    /\ doc = [t \in Threads |-> {}]
    /\ router = {}
    /\ rotations = 0
    /\ calls = 0
    /\ starts = 1
    /\ wanted = {}
    /\ overlapped = FALSE
    /\ tornBy = FALSE

Busy == {t \in Threads : call[t] # Idle}

\* _read_raw: a missing file is an empty vault, and Fernet refuses a file that
\* was written under another key, or is torn.
Readable(key) == vaultFile = Absent \/ vaultFile.key = key

\* An endpoint begins.
Begin(t, op, name) ==
    /\ up
    /\ call[t] = Idle
    /\ calls < MaxCalls
    /\ op = "rotate" => rotations < MaxRotations
    /\ calls' = calls + 1
    /\ rotations' = IF op = "rotate" THEN rotations + 1 ELSE rotations
    /\ call' = [call EXCEPT ![t] = [op |-> op, name |-> name, step |-> "read"]]
    /\ overlapped' = (overlapped \/ Busy # {})
    /\ wanted' = CASE op = "save" -> wanted \union {name}
                   [] op = "delete" -> wanted \ {name}
                   [] OTHER -> wanted
    /\ UNCHANGED <<fileVars, memoryVars, doc, starts, tornBy>>

Save(t, name) == Begin(t, "save", name)
Delete(t, name) == Begin(t, "delete", name)
Rotate(t) == Begin(t, "rotate", "none")

At(t, step) == up /\ call[t].step = step
Goes(t, step) == call' = [call EXCEPT ![t].step = step]

Read(t) ==
    /\ At(t, "read")
    /\ Readable(fernet)
    /\ doc' = [doc EXCEPT ![t] =
          CASE call[t].op = "save" -> vaultFile.names \union {call[t].name}
            [] call[t].op = "delete" -> vaultFile.names \ {call[t].name}
            [] OTHER -> vaultFile.names]
    /\ Goes(t, "truncate")
    /\ UNCHANGED <<fileVars, memoryVars, countVars, historyVars>>

\* decrypt raises: the request ends with an error and nothing is changed.
ReadFails(t) ==
    /\ At(t, "read")
    /\ ~Readable(fernet)
    /\ call' = [call EXCEPT ![t] = Idle]
    /\ UNCHANGED <<fileVars, memoryVars, doc, countVars, historyVars>>

\* open(VAULT_PATH, "wb")
Truncate(t) ==
    /\ At(t, "truncate")
    /\ vaultFile' = TornFile
    /\ Goes(t, "write")
    /\ UNCHANGED <<keyFile, memoryVars, doc, countVars, historyVars>>

\* The key a rotation writes under is new; each rotation has its own.
KeyOf(t) == IF call[t].op = "rotate" THEN rotations + 1 ELSE fernet

\* Mutant: the key file is written although the swap is left out.
WriteForgetsSwap(t) ==
    /\ At(t, "write")
    /\ vaultFile' = [key |-> KeyOf(t), names |-> doc[t]]
    /\ Goes(t, IF call[t].op = "rotate" THEN "truncateKey" ELSE "build")
    /\ UNCHANGED <<keyFile, memoryVars, doc, countVars, historyVars>>

Write(t) ==
    /\ At(t, "write")
    /\ vaultFile' = [key |-> KeyOf(t), names |-> doc[t]]
    /\ Goes(t, IF call[t].op = "rotate" THEN "swap" ELSE "build")
    /\ UNCHANGED <<keyFile, memoryVars, doc, countVars, historyVars>>

\* rotate_key: the key in memory, then the key file.
Swap(t) ==
    /\ At(t, "swap")
    /\ fernet' = KeyOf(t)
    /\ Goes(t, "truncateKey")
    /\ UNCHANGED <<fileVars, up, router, doc, countVars, historyVars>>

TruncateKey(t) ==
    /\ At(t, "truncateKey")
    /\ keyFile' = Torn
    /\ Goes(t, "writeKey")
    /\ UNCHANGED <<vaultFile, memoryVars, doc, countVars, historyVars>>

\* Mutant: the key file stays empty.
WriteKeyLost(t) ==
    /\ At(t, "writeKey")
    /\ call' = [call EXCEPT ![t] = Idle]
    /\ UNCHANGED <<fileVars, memoryVars, doc, countVars, historyVars>>

WriteKey(t) ==
    /\ At(t, "writeKey")
    /\ keyFile' = KeyOf(t)
    /\ call' = [call EXCEPT ![t] = Idle]
    /\ UNCHANGED <<vaultFile, memoryVars, doc, countVars, historyVars>>

\* build_providers: Twelve Data and Alpha Vantage are built without the vault,
\* although their keys can be saved in it.
InForce(names) == names \intersect Layered

\* MarketRouter(): the providers read the vault, then the global is replaced.
Build(t) ==
    /\ At(t, "build")
    /\ Readable(fernet)
    /\ doc' = [doc EXCEPT ![t] = InForce(vaultFile.names)]
    /\ Goes(t, "assign")
    /\ UNCHANGED <<fileVars, memoryVars, countVars, historyVars>>

BuildFails(t) ==
    /\ At(t, "build")
    /\ ~Readable(fernet)
    /\ call' = [call EXCEPT ![t] = Idle]
    /\ UNCHANGED <<fileVars, memoryVars, doc, countVars, historyVars>>

\* Mutant: the router is not rebuilt after a delete.
AssignAfterSave(t) ==
    /\ At(t, "assign")
    /\ router' = IF call[t].op = "delete" THEN router ELSE doc[t]
    /\ call' = [call EXCEPT ![t] = Idle]
    /\ UNCHANGED <<fileVars, up, fernet, doc, countVars, historyVars>>

Assign(t) ==
    /\ At(t, "assign")
    /\ router' = doc[t]
    /\ call' = [call EXCEPT ![t] = Idle]
    /\ UNCHANGED <<fileVars, up, fernet, doc, countVars, historyVars>>

\* The process dies, in the middle of any call.
Crash ==
    /\ up
    /\ up' = FALSE
    /\ tornBy' = (tornBy \/ Busy # {})
    /\ call' = [t \in Threads |-> Idle]
    /\ UNCHANGED <<fileVars, fernet, router, doc, countVars, wanted, overlapped>>

\* _load_key at import, and the router of _startup: a torn key file and a vault
\* the key does not open keep the process from starting.
Start ==
    /\ ~up
    /\ starts < MaxStarts
    /\ keyFile # Torn
    /\ Readable(keyFile)
    /\ up' = TRUE
    /\ starts' = starts + 1
    /\ fernet' = keyFile
    /\ router' = InForce(vaultFile.names)
    /\ UNCHANGED <<fileVars, callVars, rotations, calls, historyVars>>

VaultStep(t) ==
    \/ Read(t) \/ ReadFails(t) \/ Truncate(t) \/ Write(t)
    \/ Swap(t) \/ TruncateKey(t) \/ WriteKey(t)
    \/ Build(t) \/ BuildFails(t) \/ Assign(t)

VaultNext ==
    \/ \E t \in Threads : \E n \in Names : Save(t, n) \/ Delete(t, n)
    \/ \E t \in Threads : Rotate(t)
    \/ \E t \in Threads : VaultStep(t)
    \/ Crash \/ Start

VaultSpec == VaultInit /\ [][VaultNext]_vaultVars

VaultFairSpec ==
    /\ VaultSpec
    /\ \A t \in Threads : WF_vaultVars(VaultStep(t))
    /\ WF_vaultVars(Start)

-----------------------------------------------------------------------------
Quiet == Busy = {}

(***************************************************************************)
(* Unless two calls overlapped or a crash came in the middle of one, the   *)
(* key on disk opens the vault whenever no call is under way, and it is    *)
(* the key in memory (vault.rotate_key, _read_raw, _load_key).             *)
(***************************************************************************)
KeyOpensVault ==
    Quiet /\ ~overlapped /\ ~tornBy =>
        /\ keyFile # Torn
        /\ Readable(keyFile)
        /\ up => fernet = keyFile

(***************************************************************************)
(* Under the same conditions the vault holds what was saved and not        *)
(* deleted since, through rotations and restarts, and the router was built *)
(* from just those of its entries that a provider reads                    *)
(* (api.market_credentials_save, _delete, providers.build_providers).      *)
(***************************************************************************)
CredentialsInForce ==
    Quiet /\ ~overlapped /\ ~tornBy =>
        /\ vaultFile.names = wanted
        /\ up => router = InForce(wanted)

(***************************************************************************)
(* A process that went down comes up again: a crash in the middle of a     *)
(* call, or calls that overlapped, are all that may keep it from starting. *)
(***************************************************************************)
StartsAgain == ~up /\ starts < MaxStarts ~> up \/ overlapped \/ tornBy

(***************************************************************************)
(* "Instantiate every provider, layering env + vault credentials."         *)
(* (providers/__init__.py:44): every entry saved is in the router.         *)
(***************************************************************************)
EveryEntryLayered == Quiet /\ ~overlapped /\ ~tornBy /\ up => router = wanted

(***************************************************************************)
(* "A crash mid-sequence leaves the old key able to decrypt the old vault  *)
(* file" (vault.py:73): with calls one at a time, the key on disk opens    *)
(* the vault whenever the process is down.                                 *)
(***************************************************************************)
CrashSafe == ~up /\ ~overlapped => keyFile # Torn /\ Readable(keyFile)

=============================================================================
