--------------------------- MODULE AliasNamespace ---------------------------
(***************************************************************************)
(* What the store promises about the short-code namespace, which is what   *)
(* makes a printed QR code safe (FR-018): a short code has one holder at a *)
(* time; deleting the holder retires the short code without freeing it;    *)
(* only an explicit release frees a retired one; and a code that has let   *)
(* go of its short code never gets one again.                              *)
(***************************************************************************)
CONSTANTS CodeId, ShortCode, Nobody  \* Nobody is not a CodeId

VARIABLES
  phase,   \* [ShortCode -> {"free", "live", "retired"}]
  holder,  \* [ShortCode -> CodeId \cup {Nobody}]
  spent    \* the code ids that have ever held a short code

namespaceVars == <<phase, holder, spent>>

NamespaceTypeOK ==
  /\ phase \in [ShortCode -> {"free", "live", "retired"}]
  /\ holder \in [ShortCode -> CodeId \cup {Nobody}]
  /\ spent \subseteq CodeId

NamespaceInit ==
  /\ phase = [s \in ShortCode |-> "free"]
  /\ holder = [s \in ShortCode |-> Nobody]
  /\ spent = {}

\* S is claimed at once, each short code by its own code, by ids never used.
Claim(S, claimant) ==
  /\ \A s \in S : phase[s] = "free" /\ claimant[s] \notin spent
  /\ \A s, t \in S : s # t => claimant[s] # claimant[t]
  /\ phase' = [s \in ShortCode |-> IF s \in S THEN "live" ELSE phase[s]]
  /\ holder' = [s \in ShortCode |-> IF s \in S THEN claimant[s] ELSE holder[s]]
  /\ spent' = spent \cup {claimant[s] : s \in S}

Retire(s) ==
  /\ phase[s] = "live"
  /\ phase' = [phase EXCEPT ![s] = "retired"]
  /\ UNCHANGED <<holder, spent>>

Release(s) ==
  /\ phase[s] = "retired"
  /\ phase' = [phase EXCEPT ![s] = "free"]
  /\ holder' = [holder EXCEPT ![s] = Nobody]
  /\ UNCHANGED spent

NamespaceNext ==
  \/ \E S \in SUBSET ShortCode : \E claimant \in [S -> CodeId] : Claim(S, claimant)
  \/ \E s \in ShortCode : Retire(s) \/ Release(s)

NamespaceSpec == NamespaceInit /\ [][NamespaceNext]_namespaceVars
=============================================================================
