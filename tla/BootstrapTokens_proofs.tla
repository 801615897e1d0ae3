------------------------ MODULE BootstrapTokens_proofs ------------------------
(***************************************************************************)
(* Theorems about BootstrapTokens for any tokens, IDs, number of workers   *)
(* and number of attempts.                                                 *)
(***************************************************************************)
EXTENDS BootstrapTokens, FiniteSetTheorems, TLAPS

(* A request has attempts left whenever it makes one, and works for a token*)
(* of its own generation.                                                  *)
RequestInv ==
    \A w \in Workers :
        /\ step[w] \in {"create", "update"} => attempts[w] # 0
        /\ step[w] \in CreatingSteps => token[w] \in Generated
        /\ step[w] = "done" => token[w] \in Tokens

(* A Secret is found under the ID of its token, and a generated token was  *)
(* stored by ToSecret, however often.                                      *)
SecretInv ==
    \A i \in Ids :
        secrets[i] # NoSecret =>
            /\ IdOf[secrets[i].token] = i
            /\ secrets[i].token \in Generated => secrets[i] = ToSecret(secrets[i].token)

Inv == TypeOK /\ RequestInv /\ SecretInv

LEMMA ToSecretType ==
  ASSUME NEW t \in Generated
  PROVE  ToSecret(t) \in Secrets /\ ToSecret(t).token = t
BY DEF ToSecret, Secrets, Tokens

LEMMA InitInv == Init => Inv
BY TokenAssumption DEF Init, Inv, TypeOK, RequestInv, SecretInv, Steps, CreatingSteps

LEMMA StutterInv == Inv /\ UNCHANGED vars => Inv'
BY DEF Inv, TypeOK, RequestInv, SecretInv, vars, clusterVars, workerVars

LEMMA RemoveInv ==
  ASSUME Inv, NEW i \in Ids, Remove(i)
  PROVE  Inv'
<1>1. TypeOK'
  BY DEF Inv, TypeOK, Remove
<1>2. RequestInv'
  BY DEF Inv, RequestInv, Remove
<1>3. SecretInv'
  BY DEF Inv, TypeOK, SecretInv, Remove, ToSecret
<1>. QED
  BY <1>1, <1>2, <1>3 DEF Inv

LEMMA ClusterInv == Inv /\ Cluster => Inv'
<1>. SUFFICES ASSUME Inv, Cluster PROVE Inv'
  OBVIOUS
<1>1. CASE \E t \in Foreign : StoreForeign(t)
  <2>1. PICK t \in Foreign, e \in BOOLEAN, u \in BOOLEAN :
          /\ secrets' = [secrets EXCEPT ![IdOf[t]] =
                            [token |-> t, expires |-> e, usable |-> u]]
          /\ UNCHANGED <<expired, drawn, workerVars>>
    BY <1>1 DEF StoreForeign
  <2>2. t \in Tokens /\ t \notin Generated /\ IdOf[t] \in Ids
    BY TokenAssumption DEF Tokens
  <2>3. [token |-> t, expires |-> e, usable |-> u] \in Secrets
    BY <2>2 DEF Secrets
  <2>4. TypeOK'
    BY <2>1, <2>2, <2>3 DEF Inv, TypeOK, workerVars
  <2>5. SecretInv'
    BY <2>1, <2>2 DEF Inv, TypeOK, SecretInv, ToSecret
  <2>. QED
    BY <2>1, <2>4, <2>5 DEF Inv, RequestInv, workerVars
<1>2. CASE \E t \in Tokens : Elapse(t)
  BY <1>2 DEF Elapse, Inv, TypeOK, RequestInv, SecretInv, workerVars, ToSecret
<1>3. CASE \E i \in Ids : Clean(i) \/ Revoke(i)
  BY <1>3, RemoveInv DEF Clean, Revoke
<1>. QED
  BY <1>1, <1>2, <1>3 DEF Cluster

-----------------------------------------------------------------------------
(* The steps of a request                                                  *)

LEMMA AttemptFailsType ==
  ASSUME Inv, NEW w \in Workers, step[w] \in {"create", "update"}, AttemptFails(w)
  PROVE  /\ attempts' \in [Workers -> 0..FailureThreshold]
         /\ step'[w] \in {"create", "failed"}
         /\ step'[w] = "create" => attempts'[w] # 0
         /\ step' \in [Workers -> Steps]
         /\ \A v \in Workers \ {w} : step'[v] = step[v] /\ attempts'[v] = attempts[v]
<1>1. attempts[w] \in 1..FailureThreshold
  BY TokenAssumption DEF Inv, TypeOK, RequestInv
<1>2. attempts[w] - 1 \in 0..FailureThreshold /\ (attempts[w] # 1 => attempts[w] - 1 # 0)
  BY <1>1, TokenAssumption
<1>. QED
  BY <1>2 DEF AttemptFails, Goto, Inv, TypeOK, Steps, CreatingSteps

LEMMA StoreSecretInv ==
  ASSUME Inv, NEW w \in Workers, step[w] \in {"create", "update"}, StoreSecret(w)
  PROVE  Inv'
<1>1. token[w] \in Generated /\ token[w] \in Tokens /\ IdOf[token[w]] \in Ids
  BY TokenAssumption DEF Inv, RequestInv, CreatingSteps, Tokens
<1>2. secrets' \in [Ids -> Secrets \cup {NoSecret}]
  BY <1>1, ToSecretType DEF Inv, TypeOK, StoreSecret
<1>3. SecretInv'
  BY <1>1, ToSecretType DEF Inv, TypeOK, SecretInv, StoreSecret, ToSecret
<1>4. CASE Goto(w, "done") /\ UNCHANGED attempts
  BY <1>1, <1>2, <1>3, <1>4 DEF Inv, TypeOK, RequestInv, StoreSecret, Goto, Steps,
     CreatingSteps
<1>5. CASE AttemptFails(w)
  <2>1. TypeOK'
    BY <1>2, <1>5, AttemptFailsType DEF Inv, TypeOK, StoreSecret
  <2>2. RequestInv'
    BY <1>1, <1>5, AttemptFailsType DEF Inv, RequestInv, StoreSecret
  <2>. QED
    BY <1>3, <2>1, <2>2 DEF Inv
<1>. QED
  BY <1>4, <1>5 DEF StoreSecret

LEMMA CallFailsInv ==
  ASSUME Inv, NEW w \in Workers, step[w] \in {"create", "update"}, CallFails(w)
  PROVE  Inv'
<1>1. AttemptFails(w) /\ UNCHANGED <<clusterVars, drawn, token, withdrawn>>
  BY DEF CallFails
<1>2. TypeOK'
  BY <1>1, AttemptFailsType DEF Inv, TypeOK, clusterVars
<1>3. token[w] \in Generated
  BY DEF Inv, RequestInv, CreatingSteps
<1>4. RequestInv'
  BY <1>1, <1>3, AttemptFailsType DEF Inv, RequestInv
<1>. QED
  BY <1>1, <1>2, <1>4 DEF Inv, SecretInv, clusterVars, ToSecret

LEMMA RequestStepInv ==
  ASSUME Inv, NEW w \in Workers, Request(w)
  PROVE  Inv'
<1>. USE DEF At, Goto
<1>1. CASE GetValidToken(w)
  <2>1. PICK t \in ValidTokens : token' = [token EXCEPT ![w] = t]
    BY <1>1 DEF GetValidToken
  <2>2. t \in Tokens
    BY <2>1 DEF ValidTokens, Inv, TypeOK, Secrets
  <2>3. TypeOK'
    BY <1>1, <2>1, <2>2 DEF GetValidToken, Inv, TypeOK, clusterVars, Steps
  <2>4. RequestInv'
    BY <1>1, <2>1, <2>2 DEF GetValidToken, Inv, TypeOK, RequestInv, CreatingSteps
  <2>. QED
    BY <1>1, <2>3, <2>4 DEF GetValidToken, Inv, SecretInv, clusterVars, ToSecret
<1>2. CASE ListFails(w)
  BY <1>2 DEF ListFails, Answer, Inv, TypeOK, RequestInv, SecretInv, clusterVars,
     Steps, CreatingSteps, ToSecret
<1>3. CASE GenerateToken(w)
  <2>1. PICK t \in Generated \ drawn : /\ drawn' = drawn \cup {t}
                                       /\ token' = [token EXCEPT ![w] = t]
    BY <1>3 DEF GenerateToken
  <2>2. TypeOK'
    BY <1>3, <2>1 DEF GenerateToken, Inv, TypeOK, clusterVars, Steps, CreatingSteps, Tokens
  <2>3. RequestInv'
    BY <1>3, <2>1 DEF GenerateToken, Inv, TypeOK, RequestInv, CreatingSteps
  <2>. QED
    BY <1>3, <2>2, <2>3 DEF GenerateToken, Inv, SecretInv, clusterVars, ToSecret
<1>4. CASE CheckAbsent(w)
  BY <1>4, TokenAssumption DEF CheckAbsent, Inv, TypeOK, RequestInv, SecretInv,
     clusterVars, Steps, CreatingSteps, ToSecret
<1>5. CASE CreateSecret(w) \/ UpdateSecret(w)
  BY <1>5, StoreSecretInv DEF CreateSecret, UpdateSecret
<1>6. CASE CreateAlreadyExists(w)
  BY <1>6 DEF CreateAlreadyExists, Answer, Inv, TypeOK, RequestInv, SecretInv,
     clusterVars, Steps, CreatingSteps, ToSecret
<1>7. CASE CreateFails(w) \/ UpdateFails(w)
  BY <1>7, CallFailsInv DEF CreateFails, UpdateFails
<1>8. CASE EndSync(w)
  BY <1>8, TokenAssumption DEF EndSync, Inv, TypeOK, RequestInv, SecretInv,
     clusterVars, Steps, CreatingSteps, ToSecret
<1>. QED
  BY <1>1, <1>2, <1>3, <1>4, <1>5, <1>6, <1>7, <1>8 DEF Request, Create

LEMMA RestartInv == Inv /\ Restart => Inv'
BY TokenAssumption DEF Restart, Inv, TypeOK, RequestInv, SecretInv, clusterVars, Steps,
   CreatingSteps, ToSecret

LEMMA NextInv == Inv /\ [Next]_vars => Inv'
BY StutterInv, ClusterInv, RequestStepInv, RestartInv DEF Next

THEOREM InvCorrect == Spec => []Inv
<1>. QED
  BY InitInv, NextInv, PTL DEF Spec

(* Type correctness of the token requests.                                 *)
THEOREM TypeCorrect == Spec => []TypeOK
<1>1. Inv => TypeOK
  BY DEF Inv
<1>. QED
  BY <1>1, InvCorrect, PTL

-----------------------------------------------------------------------------
(* The tokens that workers were given                                      *)

LEMMA GivenKept ==
  ASSUME GivenTokensAreStored, UNCHANGED <<step, token, withdrawn>>,
         DistinctIds => \A w \in Workers :
                            step[w] = "done" /\ w \notin withdrawn
                                => secrets'[IdOf[token[w]]] = secrets[IdOf[token[w]]]
  PROVE  GivenTokensAreStored'
BY DEF GivenTokensAreStored, DistinctIds, Stored

LEMMA RemoveGiven ==
  ASSUME Inv, GivenTokensAreStored, NEW i \in Ids, Remove(i)
  PROVE  GivenTokensAreStored'
BY DEF Inv, TypeOK, GivenTokensAreStored, DistinctIds, Stored, Remove

LEMMA ClusterGiven ==
  ASSUME Inv, GivenTokensAreStored, Cluster
  PROVE  GivenTokensAreStored'
<1>1. CASE \E t \in Foreign : StoreForeign(t)
  BY <1>1, GivenKept DEF StoreForeign, workerVars, Inv, TypeOK, GivenTokensAreStored, Stored
<1>2. CASE \E t \in Tokens : Elapse(t)
  BY <1>2, GivenKept DEF Elapse, workerVars
<1>3. CASE \E i \in Ids : Clean(i) \/ Revoke(i)
  BY <1>3, RemoveGiven DEF Clean, Revoke
<1>. QED
  BY <1>1, <1>2, <1>3 DEF Cluster

(* Storing a token disturbs no other token, and leaves it stored.          *)
LEMMA StoreSecretGiven ==
  ASSUME Inv, GivenTokensAreStored, NEW w \in Workers,
         step[w] \in {"create", "update"}, StoreSecret(w)
  PROVE  GivenTokensAreStored'
<1>. SUFFICES ASSUME DistinctIds, NEW v \in Workers,
                     step'[v] = "done", v \notin withdrawn
              PROVE  Stored(token[v])'
  BY DEF GivenTokensAreStored, DistinctIds, StoreSecret
<1>1. token[w] \in Generated /\ token[w] \in Tokens /\ IdOf[token[w]] \in Ids
  BY TokenAssumption DEF Inv, RequestInv, CreatingSteps, Tokens
<1>2. ToSecret(token[w]) # NoSecret /\ ToSecret(token[w]).token = token[w]
  BY <1>1, ToSecretType, TokenAssumption
<1>3. CASE v = w
  BY <1>1, <1>2, <1>3 DEF StoreSecret, Stored, Inv, TypeOK
<1>4. CASE v # w
  <2>1. step[v] = "done"
    BY <1>4 DEF StoreSecret, Goto, AttemptFails, Inv, TypeOK
  <2>2. Stored(token[v]) /\ token[v] \in Tokens
    BY <2>1 DEF GivenTokensAreStored, Inv, RequestInv
  <2>3. CASE token[v] = token[w]
    BY <1>1, <1>2, <2>3 DEF StoreSecret, Stored, Inv, TypeOK
  <2>4. CASE token[v] # token[w]
    BY <1>1, <2>2, <2>4 DEF StoreSecret, Stored, Inv, TypeOK, DistinctIds
  <2>. QED
    BY <2>3, <2>4
<1>. QED
  BY <1>3, <1>4

LEMMA RequestGiven ==
  ASSUME Inv, GivenTokensAreStored, NEW w \in Workers, Request(w)
  PROVE  GivenTokensAreStored'
<1>. USE DEF At, Goto, clusterVars
<1>1. CASE GetValidToken(w)
  <2>1. PICK t \in ValidTokens : token' = [token EXCEPT ![w] = t]
    BY <1>1 DEF GetValidToken
  <2>2. Stored(t)
    BY <2>1 DEF ValidTokens, Stored, Inv, SecretInv
  <2>. QED
    BY <1>1, <2>1, <2>2 DEF GetValidToken, GivenTokensAreStored, DistinctIds, Stored,
       Inv, TypeOK
<1>2. CASE CreateSecret(w) \/ UpdateSecret(w)
  BY <1>2, StoreSecretGiven DEF CreateSecret, UpdateSecret
<1>3. CASE CreateFails(w) \/ UpdateFails(w)
  BY <1>3 DEF CreateFails, UpdateFails, CallFails, AttemptFails, GivenTokensAreStored,
     DistinctIds, Stored, Inv, TypeOK
<1>4. CASE ListFails(w) \/ CreateAlreadyExists(w)
  BY <1>4 DEF ListFails, CreateAlreadyExists, Answer, GivenTokensAreStored, DistinctIds,
     Stored, Inv, TypeOK
<1>5. CASE GenerateToken(w) \/ CheckAbsent(w)
  BY <1>5 DEF GenerateToken, CheckAbsent, GivenTokensAreStored, DistinctIds, Stored,
     Inv, TypeOK
<1>6. CASE EndSync(w)
  BY <1>6 DEF EndSync, GivenTokensAreStored, DistinctIds, Stored, Inv, TypeOK
<1>. QED
  BY <1>1, <1>2, <1>3, <1>4, <1>5, <1>6 DEF Request, Create

(* A worker is only ever left with a token that the cluster knows, if IDs  *)
(* do not collide.                                                         *)
THEOREM GivenTokensStayStored == Spec => []GivenTokensAreStored
<1>1. Init => GivenTokensAreStored
  BY DEF Init, GivenTokensAreStored
<1>2. Inv /\ GivenTokensAreStored /\ [Next]_vars => GivenTokensAreStored'
  <2>. SUFFICES ASSUME Inv, GivenTokensAreStored, [Next]_vars
                PROVE  GivenTokensAreStored'
    OBVIOUS
  <2>1. CASE Restart
    BY <2>1 DEF Restart, GivenTokensAreStored
  <2>2. CASE UNCHANGED vars
    BY <2>2, GivenKept DEF vars, clusterVars, workerVars
  <2>. QED
    BY <2>1, <2>2, ClusterGiven, RequestGiven DEF Next
<1>. QED
  BY <1>1, <1>2, InvCorrect, PTL DEF Spec

-----------------------------------------------------------------------------
(* The number of tokens                                                    *)

Bounded(S) == IsFiniteSet(S) /\ Cardinality(S) <= Cardinality(Workers)

LEMMA BoundedSubset ==
  ASSUME NEW S, NEW T, Bounded(S), T \subseteq S
  PROVE  Bounded(T)
<1>1. IsFiniteSet(T) /\ Cardinality(T) <= Cardinality(S)
  BY FS_Subset DEF Bounded
<1>2. /\ Cardinality(S) \in Nat
      /\ Cardinality(T) \in Nat
      /\ Cardinality(Workers) \in Nat
  BY <1>1, FS_CardinalityType, TokenAssumption DEF Bounded
<1>. QED
  BY <1>1, <1>2 DEF Bounded

(* The tokens of any set of workers.                                       *)
LEMMA BoundedTokens ==
  ASSUME NEW f, NEW D, f \in [Workers -> D], NEW T,
         \A t \in T : \E w \in Workers : t = f[w]
  PROVE  Bounded(T)
<1>. DEFINE R == {f[w] : w \in Workers}
<1>1. f \in Surjection(Workers, R)
  BY DEF Surjection
<1>2. IsFiniteSet(R) /\ Cardinality(R) <= Cardinality(Workers)
  BY ONLY <1>1, FS_Surjection, TokenAssumption
<1>3. T \subseteq R
  OBVIOUS
<1>. QED
  BY ONLY <1>2, <1>3, BoundedSubset DEF Bounded

(* Only a worker that found no token adds to those that are outstanding.   *)
LEMMA RequestOutstanding ==
  ASSUME Inv, NEW w \in Workers, Request(w), ~ GenerateToken(w)
  PROVE  Outstanding' \subseteq Outstanding
<1>. USE DEF At, Goto, clusterVars
<1>1. CASE GetValidToken(w) \/ ListFails(w) \/ EndSync(w)
  BY <1>1 DEF GetValidToken, ListFails, EndSync, Answer, Outstanding, Stored, Inv, TypeOK,
     CreatingSteps
<1>2. CASE CheckAbsent(w) \/ CreateAlreadyExists(w)
  BY <1>2 DEF CheckAbsent, CreateAlreadyExists, Answer, Outstanding, Stored, Inv, TypeOK,
     CreatingSteps
<1>3. CASE CreateFails(w) \/ UpdateFails(w)
  BY <1>3 DEF CreateFails, UpdateFails, CallFails, AttemptFails, Outstanding, Stored,
     Inv, TypeOK, CreatingSteps
<1>4. CASE CreateSecret(w) \/ UpdateSecret(w)
  <2>1. StoreSecret(w) /\ step[w] \in CreatingSteps
    BY <1>4 DEF CreateSecret, UpdateSecret, CreatingSteps
  <2>2. token[w] \in Outstanding /\ token[w] \in Generated
    BY <2>1 DEF Outstanding, Inv, RequestInv
  <2>3. \A v \in Workers : step'[v] \in CreatingSteps => token[v] \in Outstanding
    BY <2>1, <2>2 DEF StoreSecret, AttemptFails, Outstanding, Inv, TypeOK
  <2>4. \A t \in Generated : Stored(t)' => t = token[w] \/ Stored(t)
    BY <2>1, <2>2, ToSecretType DEF StoreSecret, Stored, Inv, TypeOK
  <2>5. token' = token
    BY <2>1 DEF StoreSecret
  <2>. QED
    BY <2>2, <2>3, <2>4, <2>5 DEF Outstanding
<1>. QED
  BY <1>1, <1>2, <1>3, <1>4 DEF Request, Create

LEMMA GenerateBounded ==
  ASSUME Inv, NEW w \in Workers, GenerateToken(w)
  PROVE  Bounded(Outstanding')
<1>1. \A t \in Generated : ~ Stored(t)
  <2>. SUFFICES ASSUME NEW t \in Generated, Stored(t) PROVE t \in ValidTokens
    BY DEF GenerateToken
  <2>1. IdOf[t] \in Ids
    BY TokenAssumption DEF Tokens
  <2>2. secrets[IdOf[t]] = ToSecret(t)
    BY <2>1 DEF Stored, Inv, SecretInv
  <2>3. secrets[IdOf[t]].usable
    BY <2>2 DEF ToSecret
  <2>. QED
    BY <2>1, <2>3 DEF ValidTokens, Stored
<1>2. \A t \in Outstanding' : \E v \in Workers : t = token'[v]
  BY <1>1 DEF Outstanding, Stored, GenerateToken, clusterVars
<1>3. token' \in [Workers -> Tokens \cup {NoToken}]
  BY RequestStepInv DEF Inv, TypeOK, Request
<1>. QED
  BY <1>2, <1>3, BoundedTokens

LEMMA ClusterOutstanding ==
  ASSUME Inv, Cluster
  PROVE  Outstanding' \subseteq Outstanding
<1>1. step' = step /\ token' = token
  BY DEF Cluster, StoreForeign, Elapse, Clean, Revoke, Remove, workerVars
<1>2. \A t \in Generated : Stored(t)' => Stored(t)
  <2>. SUFFICES ASSUME NEW t \in Generated, Stored(t)' PROVE Stored(t)
    OBVIOUS
  <2>1. IdOf[t] \in Ids /\ t \notin Foreign
    BY TokenAssumption DEF Tokens
  <2>2. CASE \E s \in Foreign : StoreForeign(s)
    BY <2>1, <2>2, TokenAssumption DEF StoreForeign, Stored, Inv, TypeOK, Tokens
  <2>3. CASE \E s \in Tokens : Elapse(s)
    BY <2>3 DEF Elapse, Stored
  <2>4. CASE \E i \in Ids : Clean(i) \/ Revoke(i)
    BY <2>1, <2>4 DEF Clean, Revoke, Remove, Stored, Inv, TypeOK
  <2>. QED
    BY <2>2, <2>3, <2>4 DEF Cluster
<1>. QED
  BY <1>1, <1>2 DEF Outstanding

(* There are never more outstanding tokens than workers, also if IDs       *)
(* collide.                                                                *)
THEOREM TokensAreBounded == Spec => []TokensDoNotPileUp
<1>1. Init => Bounded(Outstanding)
  <2>. SUFFICES ASSUME Init PROVE Bounded(Outstanding)
    OBVIOUS
  <2>1. \A t \in Outstanding : \E v \in Workers : t = token[v]
    BY TokenAssumption DEF Init, Outstanding, Stored, CreatingSteps, Tokens
  <2>. QED
    BY <2>1, InitInv, BoundedTokens DEF Inv, TypeOK
<1>2. Inv /\ Bounded(Outstanding) /\ [Next]_vars => Bounded(Outstanding)'
  <2>. SUFFICES ASSUME Inv, Bounded(Outstanding), [Next]_vars PROVE Bounded(Outstanding')
    BY DEF Bounded
  <2>1. CASE \E w \in Workers : GenerateToken(w)
    BY <2>1, GenerateBounded
  <2>2. CASE Restart
    BY <2>2, BoundedSubset DEF Restart, Outstanding, Stored, clusterVars, CreatingSteps
  <2>3. CASE UNCHANGED vars
    BY <2>3, BoundedSubset DEF vars, clusterVars, workerVars, Outstanding, Stored
  <2>. QED
    BY <2>1, <2>2, <2>3, ClusterOutstanding, RequestOutstanding, BoundedSubset DEF Next
<1>3. Bounded(Outstanding) => TokensDoNotPileUp
  BY DEF Bounded, TokensDoNotPileUp
<1>. QED
  BY <1>1, <1>2, <1>3, InvCorrect, PTL DEF Spec

-----------------------------------------------------------------------------
(* The number of calls                                                     *)

(* The attempts of a request that creates its token.                       *)
LEMMA AttemptsLeft ==
  ASSUME Inv, NEW w \in Workers
  PROVE  /\ FailureThreshold \in Nat \ {0} /\ attempts[w] \in Nat
         /\ step[w] \in {"create", "update"} => attempts[w] # 0
BY TokenAssumption DEF Inv, TypeOK, RequestInv

LEMMA CallsLeftType ==
  ASSUME Inv, NEW w \in Workers
  PROVE  /\ CallsLeft(w) \in Nat
         /\ step[w] \in CreatingSteps => CallsLeft(w) > 0
BY AttemptsLeft DEF CallsLeft, CreatingSteps

LEMMA CallsLeftNext ==
  ASSUME Inv', NEW w \in Workers
  PROVE  CallsLeft(w)' \in Nat
<1>1. /\ FailureThreshold \in Nat \ {0} /\ attempts'[w] \in Nat
      /\ step'[w] = "update" => attempts'[w] # 0
  BY TokenAssumption DEF Inv, TypeOK, RequestInv
<1>. QED
  BY <1>1 DEF CallsLeft

LEMMA AttemptFailsCalls ==
  ASSUME Inv, NEW w \in Workers, step[w] \in {"create", "update"}, AttemptFails(w)
  PROVE  CallsLeft(w)' < CallsLeft(w)
<1>1. attempts[w] \in Nat \ {0}
  BY AttemptsLeft
<1>2. /\ attempts'[w] = attempts[w] - 1
      /\ step'[w] = IF attempts[w] = 1 THEN "failed" ELSE "create"
  BY DEF AttemptFails, Goto, Inv, TypeOK
<1>3. CASE step'[w] = "failed"
  BY <1>1, <1>3 DEF CallsLeft
<1>4. CASE step'[w] = "create"
  BY <1>1, <1>2, <1>4 DEF CallsLeft
<1>. QED
  BY <1>2, <1>3, <1>4

LEMMA StoreSecretCalls ==
  ASSUME Inv, NEW w \in Workers, step[w] \in {"create", "update"}, StoreSecret(w)
  PROVE  CallsLeft(w)' < CallsLeft(w)
<1>1. CASE Goto(w, "done")
  <2>1. step'[w] = "done"
    BY <1>1 DEF Goto, Inv, TypeOK
  <2>2. CallsLeft(w) > 0 /\ CallsLeft(w)' = 0
    BY <2>1, CallsLeftType DEF CallsLeft, CreatingSteps
  <2>. QED
    BY <2>2
<1>. QED
  BY <1>1, AttemptFailsCalls DEF StoreSecret

LEMMA CreateCalls ==
  ASSUME Inv, NEW w \in Workers, Create(w)
  PROVE  CallsLeft(w)' < CallsLeft(w)
<1>1. CASE CheckAbsent(w)
  <2>1. /\ step[w] = "get"
        /\ \/ step'[w] = "failed"
           \/ step'[w] = "create" /\ attempts'[w] = FailureThreshold
    BY <1>1 DEF CheckAbsent, At, Goto, Inv, TypeOK
  <2>. QED
    BY <2>1, AttemptsLeft DEF CallsLeft
<1>2. CASE CreateAlreadyExists(w)
  <2>1. step[w] = "create" /\ step'[w] = "update" /\ attempts' = attempts
    BY <1>2 DEF CreateAlreadyExists, Answer, At, Goto, Inv, TypeOK
  <2>. QED
    BY <2>1, AttemptsLeft DEF CallsLeft
<1>3. CASE CreateSecret(w) \/ UpdateSecret(w)
  BY <1>3, StoreSecretCalls DEF CreateSecret, UpdateSecret, At
<1>4. CASE CreateFails(w) \/ UpdateFails(w)
  BY <1>4, AttemptFailsCalls DEF CreateFails, UpdateFails, CallFails, At
<1>. QED
  BY <1>1, <1>2, <1>3, <1>4 DEF Create

(* Nothing else gives a request that creates its token more calls.         *)
LEMMA OtherCalls ==
  ASSUME Inv, [Next]_vars, NEW w \in Workers, step[w] \in CreatingSteps, ~ Create(w)
  PROVE  CallsLeft(w)' <= CallsLeft(w)
<1>1. CASE Restart
  <2>1. CallsLeft(w)' = 0
    BY <1>1 DEF Restart, CallsLeft
  <2>. QED
    BY <2>1, CallsLeftType
<1>2. CASE Cluster \/ UNCHANGED vars
  <2>1. step' = step /\ attempts' = attempts
    BY <1>2 DEF Cluster, StoreForeign, Elapse, Clean, Revoke, Remove, workerVars, vars
  <2>2. CallsLeft(w)' = CallsLeft(w)
    BY <2>1 DEF CallsLeft
  <2>. QED
    BY <2>2, CallsLeftType
<1>3. ASSUME NEW v \in Workers, Request(v)
      PROVE  CallsLeft(w)' <= CallsLeft(w)
  <2>1. v # w
    BY <1>3 DEF Request, GetValidToken, ListFails, GenerateToken, EndSync, At, CreatingSteps
  <2>2. step'[w] = step[w] /\ attempts'[w] = attempts[w]
    BY <1>3, <2>1 DEF Request, GetValidToken, ListFails, GenerateToken, Create, CheckAbsent,
       CreateSecret, CreateAlreadyExists, CreateFails, UpdateSecret, UpdateFails, EndSync,
       StoreSecret, CallFails, AttemptFails, Answer, Goto, Inv, TypeOK
  <2>3. CallsLeft(w)' = CallsLeft(w)
    BY <2>2 DEF CallsLeft
  <2>. QED
    BY <2>3, CallsLeftType
<1>. QED
  BY <1>1, <1>2, <1>3 DEF Next

(* The bound that makes every request end (tryRunCommand, token.go:116):   *)
(* one Get and at most FailureThreshold pairs of a Create and an Update,   *)
(* whatever fails and whatever others do to the Secrets meanwhile.         *)
THEOREM RequestsRunOutOfCalls == Spec => CallsRunOut
<1>1. Inv /\ [Next]_vars =>
        [\A w \in Workers :
            step[w] \in CreatingSteps =>
                /\ CallsLeft(w)' <= CallsLeft(w)
                /\ Create(w) => CallsLeft(w)' < CallsLeft(w)]_vars
  <2>. SUFFICES ASSUME Inv, [Next]_vars, NEW w \in Workers, step[w] \in CreatingSteps
                PROVE  /\ CallsLeft(w)' <= CallsLeft(w)
                       /\ Create(w) => CallsLeft(w)' < CallsLeft(w)
    OBVIOUS
  <2>1. CallsLeft(w) \in Nat /\ CallsLeft(w)' \in Nat
    BY NextInv, CallsLeftType, CallsLeftNext
  <2>. QED
    BY <2>1, CreateCalls, OtherCalls
<1>. QED
  BY <1>1, InvCorrect, PTL DEF Spec, CallsRunOut
=============================================================================
