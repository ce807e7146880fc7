----------------------------- MODULE AuthProfiles -----------------------------
(***************************************************************************)
(* Authentication profiles: app/core/auth_profiles.py over the credential  *)
(* store of app/core/credential_store.py (the key file of systems other    *)
(* than Windows), with the endpoints of app/main.py and the scans that use *)
(* a profile.                                                              *)
(*                                                                         *)
(* A profile is a row of the database and an encrypted file beside it, and *)
(* no transaction spans both: the file is written before the row and       *)
(* deleted after it, and replaced while the row's transaction is open.     *)
(* db.connection() holds one process-wide lock, so other transactions wait *)
(* (Free), but the reading of files and the request that verifies a        *)
(* profile hold no lock.                                                   *)
(*                                                                         *)
(* A file name is made of 16 random bytes and taken to be new: the file of *)
(* a profile is known by the profile.  All profiles are of one repository, *)
(* whose rows have unique names.                                           *)
(***************************************************************************)
EXTENDS Naturals, FiniteSets

CONSTANTS
    Profiles,     \* identities of profiles (AUTOINCREMENT: never used twice)
    Names,        \* UNIQUE(repository_id, name)
    Scans,        \* scans that are made with a profile
    Handlers,     \* threads that serve requests
    Null,
    MaxSecrets,   \* bound: secrets that users enter
    MaxChecks,    \* bound: verifications
    MaxFaults,    \* bound: transactions that fail
    MaxKills      \* bound: times the backend is killed and started again

ASSUME ConstantsAssumption ==
    /\ Null \notin Profiles \cup Names
    /\ MaxSecrets \in Nat /\ MaxChecks \in Nat /\ MaxFaults \in Nat /\ MaxKills \in Nat

VARIABLES
    rows,     \* rows[p]: the row of p in api_auth_profiles, or Null
    store,    \* store[p]: its secret and the key it is encrypted with, or Null
    key,      \* the key file: the number of times it was written, 0 if it is absent
    scans,    \* rows of `scans` and what their workers have come to
    job,      \* the request each handler serves
    linked,   \* is scans.auth_profile_id a foreign key?  (see Forgetting)
    used,     \* identities in use or used before
    secrets,  \* the last secret entered
    tried,    \* history: the secret that the last verdict on p is about
    raced,    \* history: profiles whose secret changed behind a verdict
    cut,      \* history: profiles whose creation or removal a kill cut short
    checks, faults, kills

historyVars == <<tried, raced, cut>>
boundVars == <<checks, faults, kills>>
vars == <<rows, store, key, scans, job, linked, used, secrets, historyVars, boundVars>>

Idle == [pc |-> "idle", profile |-> Null, name |-> Null, secret |-> 0, key |-> 0, ok |-> FALSE]
NoScan == [state |-> "none", asked |-> Null, profile |-> Null]

Init ==
    /\ rows = [p \in Profiles |-> Null]
    /\ store = [p \in Profiles |-> Null]
    /\ key = 0
    /\ scans = [s \in Scans |-> NoScan]
    /\ job = [h \in Handlers |-> Idle]
    /\ linked \in BOOLEAN
    /\ used = {} /\ secrets = 0
    /\ tried = [p \in Profiles |-> 0]
    /\ raced = {} /\ cut = {}
    /\ checks = 0 /\ faults = 0 /\ kills = 0

At(h, label) == job[h].pc = label
Goto(h, label) == job' = [job EXCEPT ![h].pc = label]
Finish(h) == job' = [job EXCEPT ![h] = Idle]

(* No transaction is open: only a replacement does more than one thing in  *)
(* its transaction.                                                        *)
Free == \A h \in Handlers : ~At(h, "commit")

Fault == faults < MaxFaults /\ faults' = faults + 1 /\ UNCHANGED <<checks, kills>>

Secret(s, k) == [secret |-> s, key |-> k]
Readable(p) == store[p] # Null /\ store[p].key = key

-----------------------------------------------------------------------------
(* create_profile.  Whether there is a key file is looked up first, then   *)
(* the key is made, read, and used; then the secret is saved, and the row  *)
(* inserted.                                                               *)
CreateProfile(h, p, n) ==
    /\ At(h, "idle") /\ p \notin used
    /\ secrets < MaxSecrets /\ secrets' = secrets + 1
    /\ used' = used \cup {p}
    /\ job' = [job EXCEPT ![h] = [Idle EXCEPT !.pc = IF key = 0 THEN "makekey" ELSE "protect",
                                              !.profile = p, !.name = n, !.secret = secrets']]
    /\ UNCHANGED <<rows, store, key, scans, historyVars, boundVars>>

MakeKey(h) ==
    /\ At(h, "makekey")
    /\ key' = key + 1
    /\ Goto(h, "protect")
    /\ UNCHANGED <<rows, store, scans, used, secrets, historyVars, boundVars>>

Protect(h) ==
    /\ At(h, "protect")
    /\ job' = [job EXCEPT ![h].pc = "save", ![h].key = key]
    /\ UNCHANGED <<rows, store, key, scans, used, secrets, historyVars, boundVars>>

Save(h) ==
    /\ At(h, "save")
    /\ store' = [store EXCEPT ![job[h].profile] = Secret(job[h].secret, job[h].key)]
    /\ Goto(h, "insert")
    /\ UNCHANGED <<rows, key, scans, used, secrets, historyVars, boundVars>>

Taken(n) == \E p \in Profiles : rows[p] # Null /\ rows[p].name = n

Insert(h) ==
    /\ At(h, "insert") /\ Free
    /\ IF Taken(job[h].name)
       THEN Goto(h, "delete") /\ UNCHANGED rows
       ELSE /\ rows' = [rows EXCEPT ![job[h].profile] = [name |-> job[h].name, verified |-> FALSE]]
            /\ Finish(h)
    /\ UNCHANGED <<store, key, scans, used, secrets, historyVars, boundVars>>

InsertFails(h) ==
    /\ At(h, "insert") /\ Free /\ Fault
    /\ Goto(h, "delete")
    /\ UNCHANGED <<rows, store, key, scans, used, secrets, historyVars>>

-----------------------------------------------------------------------------
(* remove_profile.  Rows that refer to the profile have it set to NULL, by *)
(* the foreign key that the table has when this version made it (db.py     *)
(* 117); the column of an older table was added without (265).             *)
Forgetting(p) ==
    [s \in Scans |-> IF linked /\ scans[s].profile = p /\ scans[s].state = "queued"
                     THEN [scans[s] EXCEPT !.profile = Null] ELSE scans[s]]

RemoveProfile(h, p) ==
    /\ At(h, "idle") /\ Free /\ rows[p] # Null
    /\ rows' = [rows EXCEPT ![p] = Null]
    /\ scans' = Forgetting(p)
    /\ job' = [job EXCEPT ![h] = [Idle EXCEPT !.pc = "delete", !.profile = p]]
    /\ UNCHANGED <<store, key, used, secrets, historyVars, boundVars>>

(* delete_secret, after a removal or an insertion that failed.             *)
DeleteSecret(h) ==
    /\ At(h, "delete")
    /\ store' = [store EXCEPT ![job[h].profile] = Null]
    /\ Finish(h)
    /\ UNCHANGED <<rows, key, scans, used, secrets, historyVars, boundVars>>

-----------------------------------------------------------------------------
(* update_profile_secret: the new secret is in its file before the row's   *)
(* transaction commits, and stays there when it does not.                  *)
Checking(h, p) == job[h].pc \in {"request", "verdict"} /\ job[h].profile = p

Replace(h, p) ==
    /\ At(h, "idle") /\ Free /\ rows[p] # Null
    /\ secrets < MaxSecrets /\ secrets' = secrets + 1
    /\ store' = [store EXCEPT ![p] = Secret(secrets', key)]
    /\ raced' = IF \E g \in Handlers : Checking(g, p) THEN raced \cup {p} ELSE raced
    /\ job' = [job EXCEPT ![h] = [Idle EXCEPT !.pc = "commit", !.profile = p]]
    /\ UNCHANGED <<rows, key, scans, used, tried, cut, boundVars>>

Unverified_Kept(p) == rows
Unverified(p) == [rows EXCEPT ![p].verified = FALSE]

Commit(h) ==
    /\ At(h, "commit")
    /\ rows' = Unverified(job[h].profile)
    /\ Finish(h)
    /\ UNCHANGED <<store, key, scans, used, secrets, historyVars, boundVars>>

CommitFails_FileDeleted(h) ==
    /\ At(h, "commit") /\ Fault
    /\ store' = [store EXCEPT ![job[h].profile] = Null]
    /\ Finish(h)
    /\ UNCHANGED <<rows, key, scans, used, secrets, historyVars>>

CommitFails(h) ==
    /\ At(h, "commit") /\ Fault
    /\ raced' = raced \cup {job[h].profile}
    /\ Finish(h)
    /\ UNCHANGED <<rows, store, key, scans, used, secrets, tried, cut>>

-----------------------------------------------------------------------------
(* verify_profile: the row is read in one transaction, then the file, then *)
(* the request is made, and its verdict written in another transaction.    *)
Verify(h, p) ==
    /\ At(h, "idle") /\ Free /\ rows[p] # Null
    /\ checks < MaxChecks /\ checks' = checks + 1
    /\ job' = [job EXCEPT ![h] = [Idle EXCEPT !.pc = "load", !.profile = p]]
    /\ UNCHANGED <<rows, store, key, scans, used, secrets, historyVars, faults, kills>>

(* A secret that is gone or cannot be decrypted ends the request.          *)
Load(h) ==
    /\ At(h, "load")
    /\ IF Readable(job[h].profile)
       THEN job' = [job EXCEPT ![h].pc = "request", ![h].secret = store[job[h].profile].secret]
       ELSE Finish(h)
    /\ UNCHANGED <<rows, store, key, scans, used, secrets, historyVars, boundVars>>

Answer(h, ok) ==
    /\ At(h, "request")
    /\ job' = [job EXCEPT ![h].pc = "verdict", ![h].ok = ok]
    /\ UNCHANGED <<rows, store, key, scans, used, secrets, historyVars, boundVars>>

Verdict(h) ==
    /\ At(h, "verdict") /\ Free
    /\ IF rows[job[h].profile] # Null
       THEN /\ rows' = [rows EXCEPT ![job[h].profile].verified = job[h].ok]
            /\ tried' = [tried EXCEPT ![job[h].profile] = job[h].secret]
       ELSE UNCHANGED <<rows, tried>>
    /\ Finish(h)
    /\ UNCHANGED <<store, key, scans, used, secrets, raced, cut, boundVars>>

-----------------------------------------------------------------------------
(* A scan with a profile: create_scan looks it up and inserts the row in   *)
(* another transaction; a worker reads the row and then resolves the       *)
(* profile it names, or runs without one.                                  *)
Moves(s, from, to) == scans[s].state = from /\ scans' = [scans EXCEPT ![s].state = to]

ScanFrame == UNCHANGED <<rows, store, key, job, used, secrets, historyVars, boundVars>>

CheckProfile(s, p) ==
    /\ scans[s].state = "none" /\ Free /\ rows[p] # Null
    /\ scans' = [scans EXCEPT ![s] = [state |-> "checked", asked |-> p, profile |-> p]]
    /\ ScanFrame

(* A foreign key refuses a profile that was removed since.                 *)
InsertScan(s) ==
    /\ Free
    /\ Moves(s, "checked", IF linked /\ rows[scans[s].profile] = Null THEN "refused" ELSE "queued")
    /\ ScanFrame

BeginScan(s) ==
    /\ Free
    /\ Moves(s, "queued", IF scans[s].profile = Null THEN "anonymous" ELSE "resolving")
    /\ ScanFrame

Resolve(s) ==
    /\ Free
    /\ Moves(s, "resolving", IF rows[scans[s].profile] # Null THEN "loading" ELSE "failed")
    /\ ScanFrame

Unauthenticated_Anonymous == "anonymous"
Unauthenticated == "failed"

LoadForScan(s) ==
    /\ Moves(s, "loading", IF Readable(scans[s].profile) THEN "authenticated" ELSE Unauthenticated)
    /\ ScanFrame

ScanStep(s) ==
    \/ \E p \in Profiles : CheckProfile(s, p)
    \/ InsertScan(s) \/ BeginScan(s) \/ Resolve(s) \/ LoadForScan(s)

-----------------------------------------------------------------------------
(* The backend is killed, and started again: open transactions are undone, *)
(* and scans that were not finished are not taken up again.                *)
Ended == {"anonymous", "authenticated", "failed", "refused", "lost", "none"}

Kill ==
    /\ kills < MaxKills /\ kills' = kills + 1
    /\ job' = [h \in Handlers |-> Idle]
    /\ scans' = [s \in Scans |-> IF scans[s].state \in Ended THEN scans[s]
                                 ELSE [scans[s] EXCEPT !.state = "lost"]]
    /\ raced' = raced \cup {p \in Profiles : \E h \in Handlers : At(h, "commit") /\ job[h].profile = p}
    /\ cut' = cut \cup {p \in Profiles : \E h \in Handlers :
                                           job[h].pc \in {"insert", "delete"} /\ job[h].profile = p}
    /\ UNCHANGED <<rows, store, key, used, secrets, tried, checks, faults>>

HandlerStep(h) ==
    \/ \E p \in Profiles, n \in Names : CreateProfile(h, p, n)
    \/ \E p \in Profiles : RemoveProfile(h, p) \/ Replace(h, p) \/ Verify(h, p)
    \/ MakeKey(h) \/ Protect(h) \/ Save(h) \/ Insert(h) \/ InsertFails(h) \/ DeleteSecret(h)
    \/ Commit(h) \/ CommitFails(h)
    \/ Load(h) \/ Verdict(h)
    \/ \E ok \in BOOLEAN : Answer(h, ok)

Next == /\ \/ \E h \in Handlers : HandlerStep(h)
           \/ \E s \in Scans : ScanStep(s)
           \/ Kill
        /\ UNCHANGED linked

Spec == Init /\ [][Next]_vars

-----------------------------------------------------------------------------
RowType == [name : Names, verified : BOOLEAN]
SecretType == [secret : Nat, key : Nat]
Labels == {"idle", "makekey", "protect", "save", "insert", "delete", "commit", "load", "request", "verdict"}
JobType == [pc : Labels, profile : Profiles \cup {Null}, name : Names \cup {Null},
            secret : Nat, key : Nat, ok : BOOLEAN]
ScanType == [state : Ended \cup {"checked", "queued", "resolving", "loading"},
             asked : Profiles \cup {Null}, profile : Profiles \cup {Null}]

ASSUME NullAssumption == Null \notin RowType /\ Null \notin SecretType

(* Every variable has its type.                                            *)
TypeOK ==
    /\ rows \in [Profiles -> RowType \cup {Null}]
    /\ store \in [Profiles -> SecretType \cup {Null}]
    /\ key \in Nat
    /\ scans \in [Scans -> ScanType]
    /\ job \in [Handlers -> JobType]
    /\ linked \in BOOLEAN /\ used \subseteq Profiles /\ secrets \in Nat
    /\ tried \in [Profiles -> Nat]
    /\ raced \subseteq Profiles /\ cut \subseteq Profiles
    /\ checks \in 0 .. MaxChecks /\ faults \in 0 .. MaxFaults /\ kills \in 0 .. MaxKills

(* A profile that is listed has a secret, and it can be decrypted, through *)
(* failures and kills; unless the first two profiles raced for the key     *)
(* file, which was then written twice (_fernet).                           *)
SecretBehindRow ==
    \A p \in Profiles : rows[p] # Null => store[p] # Null /\ (Readable(p) \/ key > 1)

(* Secrets do not linger: a file without a row belongs to a creation or a  *)
(* removal that is going on, or that was cut short by a kill.              *)
NoSecretLeftOver ==
    \A p \in Profiles : store[p] # Null /\ rows[p] = Null =>
        \/ p \in cut
        \/ \E h \in Handlers : job[h].profile = p /\ job[h].pc \in {"insert", "delete"}

(* Rows and secrets belong together, though no transaction spans both.     *)
SecretsMatchRows == SecretBehindRow /\ NoSecretLeftOver

(* "verified" is said of the secret in the file: it was the one tried.     *)
(* The only exceptions are a replacement during the verification, and one  *)
(* whose transaction failed after the file was replaced.                   *)
VerifiedIsCurrent ==
    \A p \in Profiles : rows[p] # Null /\ rows[p].verified =>
        \/ tried[p] = store[p].secret
        \/ p \in raced
        \/ \E h \in Handlers : At(h, "commit") /\ job[h].profile = p

(* A scan that was asked to authenticate does so or fails: it runs without *)
(* the profile only if the profile was removed while it was queued, and    *)
(* the foreign key has taken it out of its row.  On a database that was    *)
(* expanded from an older one such a scan fails (auth_profiles.py 195).    *)
AnonymousOnlyByRemoval ==
    \A s \in Scans : scans[s].state = "anonymous" => linked /\ rows[scans[s].asked] = Null
=============================================================================
