---------------------------- MODULE MCSurroundings ----------------------------
(* Seven components that share no state, each explored on its own in one run:  *)
(* `subject` says which of them this behaviour is about, and the others stay *)
(* where they begin.                                                         *)
EXTENDS RateLimiter, Joining, JoinCodes, Roles, Accounts, Publishing,
        Feed, TLC

CONSTANTS b1, b2, b3, one, two

VARIABLE subject

MCInit ==
    /\ subject \in {"limiter", "joining", "codes", "roles", "accounts", "publishing",
                   "feed"}
    /\ RateInit /\ JoinInit /\ CodesInit /\ RolesInit /\ AccountsInit /\ PublishingInit
    /\ FeedInit
    /\ subject # "joining" => cap = 1
    /\ subject # "feed" => kind = "chat"

Rest(s) ==
    /\ UNCHANGED subject
    /\ s = "limiter" \/ UNCHANGED rateVars
    /\ s = "joining" \/ UNCHANGED joinVars
    /\ s = "codes" \/ UNCHANGED codeVars
    /\ s = "roles" \/ UNCHANGED roleVars
    /\ s = "accounts" \/ UNCHANGED accountVars
    /\ s = "publishing" \/ UNCHANGED publishVars
    /\ s = "feed" \/ UNCHANGED feedVars

MCNext ==
    \/ subject = "limiter" /\ RateNext /\ Rest("limiter")
    \/ subject = "joining" /\ JoinNext /\ Rest("joining")
    \/ subject = "codes" /\ CodesNext /\ Rest("codes")
    \/ subject = "roles" /\ RolesNext /\ Rest("roles")
    \/ subject = "accounts" /\ AccountsNext /\ Rest("accounts")
    \/ subject = "publishing" /\ PublishingNext /\ Rest("publishing")
    \/ subject = "feed" /\ FeedNext /\ Rest("feed")

mcVars == <<subject, rateVars, joinVars, codeVars, roleVars, accountVars, publishVars,
            feedVars>>
MCSpec == MCInit /\ [][MCNext]_mcVars

TypesOK ==
    /\ RateTypeOK /\ JoinTypeOK /\ CodesTypeOK /\ RolesTypeOK /\ AccountsTypeOK
    /\ PublishingTypeOK /\ FeedTypeOK

\* Guests are alike, and so are senders.  No state is about both, so that one
\* permutation may turn both at a time.
Twin == CHOOSE f \in [Senders -> Guests] : \A g \in Guests : \E w \in Senders : f[w] = g
OfSenders(p) == [w \in Senders |-> CHOOSE z \in Senders : Twin[z] = p[Twin[w]]]
Sameness == Permutations(Requests) \cup {p @@ OfSenders(p) : p \in Permutations(Guests)}

\* b1 and b2 are two builds of one version.
MCVersion == [b \in {b1, b2, b3} |-> IF b = b3 THEN two ELSE one]
=============================================================================
