--------------------------- MODULE BootstrapTokens ---------------------------
(***************************************************************************)
(* How the workers get the bootstrap token of a join command (the package  *)
(* cmd/util/token): GetValidToken takes a token that the cluster already   *)
(* has; when there is none, CreateShortLivedBootstrapToken generates one   *)
(* and stores it as a Secret, with retries.                                *)
(*                                                                         *)
(* The Secrets are shared with other writers and with the token cleaner of *)
(* the cluster, and any call may fail, or take effect although its caller  *)
(* sees an error.  Time is not counted: a token's time may come at any     *)
(* step, and so may the end of a back-off.                                 *)
(***************************************************************************)
EXTENDS Naturals, FiniteSets

CONSTANTS
    Ids,                  \* token IDs; each names one Secret
    Generated,            \* the tokens that generateBootstrapToken may return
    Foreign,              \* the tokens that others store
    IdOf,                 \* the ID of a token
    Workers,              \* the goroutines that need tokens
    FailureThreshold,     \* attempts of tryRunCommand
    NoToken, NoSecret

Tokens == Generated \cup Foreign

(* A Secret: its token, whether it has an expiration, and whether          *)
(* BootstrapTokenFromSecret accepts it with the usages and groups sought.  *)
Secrets == [token : Tokens, expires : BOOLEAN, usable : BOOLEAN]

ASSUME TokenAssumption ==
    /\ IsFiniteSet(Workers)
    /\ Generated \cap Foreign = {}
    /\ IdOf \in [Tokens -> Ids]
    /\ FailureThreshold \in Nat \ {0}
    /\ NoToken \notin Tokens
    /\ NoSecret \notin Secrets

VARIABLES
    secrets,              \* the bootstrap token Secrets of kube-system
    expired,              \* the tokens whose time has come
    withdrawn,            \* history: the workers whose token was deleted by
                          \* others after it was given to them
    drawn,                \* generated tokens so far
    step, token, attempts \* where each worker is, its token, attempts left

clusterVars == <<secrets, expired>>
workerVars == <<step, token, attempts, withdrawn>>
vars == <<clusterVars, drawn, workerVars>>

(* The steps between the generation of a token and the answer.             *)
CreatingSteps == {"get", "create", "update"}
Steps == {"list", "done", "failed"} \cup CreatingSteps

TypeOK ==
    /\ secrets \in [Ids -> Secrets \cup {NoSecret}]
    /\ expired \subseteq Tokens
    /\ drawn \subseteq Generated
    /\ step \in [Workers -> Steps]
    /\ token \in [Workers -> Tokens \cup {NoToken}]
    /\ attempts \in [Workers -> 0..FailureThreshold]
    /\ withdrawn \subseteq Workers

Stored(t) ==
    /\ secrets[IdOf[t]] # NoSecret
    /\ secrets[IdOf[t]].token = t

Init ==
    /\ secrets = [i \in Ids |-> NoSecret]
    /\ expired = {}
    /\ drawn = {}
    /\ step = [w \in Workers |-> "list"]
    /\ token = [w \in Workers |-> NoToken]
    /\ attempts = [w \in Workers |-> 0]
    /\ withdrawn = {}

-----------------------------------------------------------------------------
(* The cluster around the controller                                       *)

(* "kubeadm token create" and others, who may store any kind of token.     *)
StoreForeign(t) ==
    /\ secrets[IdOf[t]] = NoSecret
    /\ t \notin expired
    /\ \E e, u \in BOOLEAN :
          secrets' = [secrets EXCEPT ![IdOf[t]] =
                         [token |-> t, expires |-> e, usable |-> u]]
    /\ UNCHANGED <<expired, drawn, workerVars>>

(* The time of a token comes, stored or not.                               *)
Elapse(t) ==
    /\ t \in (drawn \cup Foreign) \ expired
    /\ expired' = expired \cup {t}
    /\ UNCHANGED <<secrets, drawn, workerVars>>

Remove(i) ==
    /\ secrets[i] # NoSecret
    /\ secrets' = [secrets EXCEPT ![i] = NoSecret]
    /\ withdrawn' = withdrawn \cup
                       {w \in Workers : /\ step[w] = "done"
                                        /\ token[w] = secrets[i].token}
    /\ UNCHANGED <<expired, drawn, step, token, attempts>>

(* The token cleaner deletes, some time, a Secret that has expired.        *)
Clean(i) ==
    /\ secrets[i] # NoSecret
    /\ secrets[i].expires
    /\ secrets[i].token \in expired
    /\ Remove(i)

(* "kubeadm token delete": anybody's token, at any time.                   *)
Revoke(i) == Remove(i)

-----------------------------------------------------------------------------
(* A worker's request                                                      *)

At(w, s) == step[w] = s

Goto(w, s) == step' = [step EXCEPT ![w] = s]

(* The worker keeps its token and reads no more than it has.               *)
Answer(w, s) ==
    /\ Goto(w, s)
    /\ UNCHANGED <<clusterVars, drawn, token, attempts, withdrawn>>

(* Mutant of ToSecret: a TTL that is not positive gives no expiration.     *)
ToSecret_NoTTL(t) == [token |-> t, expires |-> FALSE, usable |-> TRUE]

(* Mutant of ToSecret: usages that are not read back in the order of       *)
(* tokenUsage, so that GetValidToken does not know the token again.        *)
ToSecret_Unsorted(t) == [token |-> t, expires |-> TRUE, usable |-> FALSE]

(* The Secret of a generated token has a TTL, and tokenUsage and           *)
(* tokenGroups, so that it expires and GetValidToken recognises it.        *)
ToSecret(t) == [token |-> t, expires |-> TRUE, usable |-> TRUE]

(* What GetValidToken chooses from.  It does not look at expirations.      *)
ValidTokens ==
    {secrets[i].token : i \in {j \in Ids : /\ secrets[j] # NoSecret
                                           /\ secrets[j].usable}}

(* Its list is ordered by the API server; here any of them may be first.   *)
GetValidToken(w) ==
    /\ At(w, "list")
    /\ \E t \in ValidTokens : token' = [token EXCEPT ![w] = t]
    /\ Goto(w, "done")
    /\ UNCHANGED <<clusterVars, drawn, attempts, withdrawn>>

ListFails(w) ==
    /\ At(w, "list")
    /\ Answer(w, "failed")

(* No valid token: a token never seen before.                              *)
GenerateToken(w) ==
    /\ At(w, "list")
    /\ ValidTokens = {}
    /\ \E t \in Generated \ drawn : /\ drawn' = drawn \cup {t}
                                    /\ token' = [token EXCEPT ![w] = t]
    /\ Goto(w, "get")
    /\ UNCHANGED <<clusterVars, attempts, withdrawn>>

(* failIfExists: a Secret that the Get returns ends the request, and every *)
(* error of the Get counts as its absence.                                 *)
CheckAbsent(w) ==
    /\ At(w, "get")
    /\ \/ /\ secrets[IdOf[token[w]]] # NoSecret
          /\ Goto(w, "failed")
          /\ UNCHANGED attempts
       \/ /\ Goto(w, "create")
          /\ attempts' = [attempts EXCEPT ![w] = FailureThreshold]
    /\ UNCHANGED <<clusterVars, drawn, token, withdrawn>>

(* Mutant of AttemptFails: the attempts are not counted.                   *)
AttemptFails_Forever(w) ==
    /\ Goto(w, "create")
    /\ UNCHANGED attempts

(* Mutant of AttemptFails: off by one, the last attempt is not the last.   *)
AttemptFails_OneMore(w) ==
    /\ attempts' = [attempts EXCEPT ![w] = @ - 1]
    /\ Goto(w, IF attempts[w] = 0 THEN "failed" ELSE "create")

(* An attempt failed: tryRunCommand backs off and tries again, or gives up.*)
AttemptFails(w) ==
    /\ attempts' = [attempts EXCEPT ![w] = @ - 1]
    /\ Goto(w, IF attempts[w] = 1 THEN "failed" ELSE "create")

(* The Secret arrives in the API server.  The caller learns so, or it sees *)
(* an error.                                                               *)
StoreSecret(w) ==
    /\ secrets' = [secrets EXCEPT ![IdOf[token[w]]] = ToSecret(token[w])]
    /\ \/ Goto(w, "done") /\ UNCHANGED attempts
       \/ AttemptFails(w)
    /\ UNCHANGED <<expired, drawn, token, withdrawn>>

CallFails(w) ==
    /\ AttemptFails(w)
    /\ UNCHANGED <<clusterVars, drawn, token, withdrawn>>

(* createOrUpdateSecret, its Create.                                       *)
CreateSecret(w) ==
    /\ At(w, "create")
    /\ secrets[IdOf[token[w]]] = NoSecret
    /\ StoreSecret(w)

CreateAlreadyExists(w) ==
    /\ At(w, "create")
    /\ secrets[IdOf[token[w]]] # NoSecret
    /\ Answer(w, "update")

CreateFails(w) ==
    /\ At(w, "create")
    /\ CallFails(w)

(* Mutant of UpdateSecret: an error of the Update is not returned.         *)
UpdateSecret_IgnoresError(w) ==
    /\ At(w, "update")
    /\ \/ secrets' = [secrets EXCEPT ![IdOf[token[w]]] = ToSecret(token[w])]
       \/ UNCHANGED secrets
    /\ Goto(w, "done")
    /\ UNCHANGED <<expired, drawn, token, attempts, withdrawn>>

(* createOrUpdateSecret, its Update of whatever has the name.              *)
UpdateSecret(w) ==
    /\ At(w, "update")
    /\ secrets[IdOf[token[w]]] # NoSecret
    /\ StoreSecret(w)

(* Among others because the Secret is gone since the Create.               *)
UpdateFails(w) ==
    /\ At(w, "update")
    /\ CallFails(w)

(* The sync that asked for the token ends, well or not.                    *)
EndSync(w) ==
    /\ step[w] \in {"done", "failed"}
    /\ Goto(w, "list")
    /\ token' = [token EXCEPT ![w] = NoToken]
    /\ attempts' = [attempts EXCEPT ![w] = 0]
    /\ withdrawn' = withdrawn \ {w}
    /\ UNCHANGED <<clusterVars, drawn>>

(* The process dies and starts again, and forgets its requests.            *)
Restart ==
    /\ step' = [w \in Workers |-> "list"]
    /\ token' = [w \in Workers |-> NoToken]
    /\ attempts' = [w \in Workers |-> 0]
    /\ withdrawn' = {}
    /\ UNCHANGED <<clusterVars, drawn>>

-----------------------------------------------------------------------------
(* The specification                                                       *)

Cluster ==
    \/ \E t \in Foreign : StoreForeign(t)
    \/ \E t \in Tokens : Elapse(t)
    \/ \E i \in Ids : Clean(i) \/ Revoke(i)

(* The calls of updateOrCreateTokens.                                      *)
Create(w) ==
    \/ CheckAbsent(w)
    \/ CreateSecret(w)
    \/ CreateAlreadyExists(w)
    \/ CreateFails(w)
    \/ UpdateSecret(w)
    \/ UpdateFails(w)

Request(w) ==
    \/ GetValidToken(w)
    \/ ListFails(w)
    \/ GenerateToken(w)
    \/ Create(w)
    \/ EndSync(w)

Next ==
    \/ Cluster
    \/ \E w \in Workers : Request(w)
    \/ Restart

Spec == Init /\ [][Next]_vars

(* Calls return and back-offs end, time passes, and the token cleaner of   *)
(* the cluster runs.  Nothing makes a worker ask, or anybody else act.     *)
Fairness ==
    /\ \A w \in Workers : WF_vars(Create(w))
    /\ \A t \in Tokens : WF_vars(Elapse(t))
    /\ \A i \in Ids : WF_vars(Clean(i))

FairSpec == Spec /\ Fairness

-----------------------------------------------------------------------------
(* Properties                                                              *)

(* No two tokens have the same ID: what the random choice of 36^6 IDs is   *)
(* meant to give.  Constant-level, a premise.                              *)
DistinctIds == \A s, t \in Tokens : IdOf[s] = IdOf[t] => s = t

(* A token that a worker was given, for a join command that runs later, is *)
(* in the cluster, unless somebody deleted it since: neither the failed or *)
(* repeated attempts of its own request, nor those of other workers, nor a *)
(* deletion in the middle of them leave a worker with a token that the     *)
(* cluster does not know.                                                  *)
GivenTokensAreStored ==
    DistinctIds =>
        \A w \in Workers :
            step[w] = "done" /\ w \notin withdrawn => Stored(token[w])

(* The generated tokens that are stored or may yet be.                     *)
Outstanding ==
    {t \in Generated : Stored(t)}
        \cup {token[w] : w \in {v \in Workers : step[v] \in CreatingSteps}}

(* Tokens do not pile up, whatever fails, times out or restarts: a worker  *)
(* generates one only when it finds none, so there are never more than     *)
(* there are workers, although unknown results and restarts leave tokens   *)
(* behind that no worker holds.                                            *)
TokensDoNotPileUp == Cardinality(Outstanding) <= Cardinality(Workers)

(* Every request ends, also when every single call of it fails.            *)
EveryRequestEnds ==
    \A w \in Workers : step[w] \in CreatingSteps ~> step[w] \notin CreatingSteps

(* How many calls a request that creates its token may still make: each of *)
(* its attempts is a Create and perhaps an Update.                         *)
CallsLeft(w) ==
    CASE step[w] = "get" -> 2 * FailureThreshold + 1
      [] step[w] = "create" -> 2 * attempts[w]
      [] step[w] = "update" -> 2 * attempts[w] - 1
      [] OTHER -> 0

(* Every call brings a request nearer to its end, also a call that fails or*)
(* that is repeated after an unknown result, and nothing that happens to   *)
(* the Secrets meanwhile gives it further calls.                           *)
CallsRunOut ==
    [][\A w \in Workers :
          step[w] \in CreatingSteps =>
              /\ CallsLeft(w)' <= CallsLeft(w)
              /\ Create(w) => CallsLeft(w)' < CallsLeft(w)]_vars

(* A generated token does not stay in the cluster for ever, not even one   *)
(* whose request failed, was repeated after the token's time, or died with *)
(* the process: the "short lived" of CreateShortLivedBootstrapToken.       *)
ShortLived == \A t \in Generated : <>[]~Stored(t)

-----------------------------------------------------------------------------
(* What comments of the source say and the code does not do                *)

(* token.go:86: "tries to create a token and fails if one with the same ID *)
(* already exists": no stored token is replaced by another one.            *)
FailsIfExists ==
    [][\A i \in Ids :
          secrets[i] # NoSecret /\ secrets'[i] # NoSecret =>
              secrets'[i].token = secrets[i].token]_vars
=============================================================================
