--------------------------- MODULE FilteringProofs ---------------------------
(***************************************************************************)
(* Proofs about filing rules from their storage to a delivery, for any     *)
(* number of addresses, accounts, rules, revisions, faults and deliveries. *)
(* Of the storage: delivery never follows an outdated or partial list, the *)
(* bridge accepts every snapshot, and a revision names one content.  Of    *)
(* the filter: however messages and answers are cut and wherever a         *)
(* delivery fails, Maddy is given the answer to its whole message or none, *)
(* and permits and the lock come back.                                     *)
(***************************************************************************)
EXTENDS Filtering, Sequences, FiniteSetTheorems, SequenceTheorems, WellFoundedInduction, TLAPS

----------------------------------------------------------------------------
(* The storage and the snapshots: the inductive invariant *)

\* An account's identifier and its address name one row; both are drawn once.
AccountKeys ==
    /\ \A a, b \in accounts : a.id = b.id \/ a.email = b.email => a = b
    /\ \A a \in accounts : a.id \in issued

\* No identifier names two of the rules.
Distinct(rs) == \A r, q \in rs : r.id = q.id => r = q

\* A rule belongs to a stored account, its identifier was drawn for it, and the
\* last revision written under the identifier is its own.
RuleKeys ==
    /\ Distinct(rules)
    /\ \A r \in rules :
        /\ Stored(r.account) /\ r.id \in issued
        /\ <<r.id, r.rev, r.content>> \in written
        /\ \A w \in written : w[1] = r.id => w[2] <= r.rev
    /\ \A w \in written : w[1] \in issued

\* The rules of an account stand at the positions 0, 1, 2 and so on.
Lined(rs) ==
    /\ IsFiniteSet(rs) /\ Cardinality(rs) <= MaxRules
    /\ \A r, q \in rs : r.pos = q.pos => r = q
    /\ {r.pos : r \in rs} = 0 .. Cardinality(rs) - 1

RulesLined == \A id \in AccountIds : Lined(RulesOf(id))

\* A list of rules for an address is the present one, or none of its rules is
\* stored any more; the bridge accepts it, and its identifiers were drawn.
Follows(e, rs) ==
    /\ (\E r \in rs, q \in rules : q.id = r.id) => rs = Wanted(e)
    /\ BridgeAccepts(rs)
    /\ \A r \in rs : r.id \in issued

FilesFollow == \A e \in Emails : Follows(e, Effective(e))
PlanFollows ==
    pc \in {"purging", "publishing"} => \A e \in DOMAIN plan : Follows(e, plan[e])

\* A request names an account by its identifier and address, and what it brings
\* fits; from the pause to the publication its snapshot is empty.
RequestFits ==
    req # None =>
        /\ req.account \in issued
        /\ \A a \in accounts : a.id = req.account => a.email = req.email
        /\ pc \in {"paused", "committed"} => Effective(req.email) = {}
        /\ pc = "paused" => req.kind # "remove"
        /\ req.kind \in {"create", "update"} => req.content \in Contents
        /\ req.kind = "update" => req.rev \in Nat /\ req.rev < MaxRevision
        /\ req.kind = "reorder" => req.order \in Orders(DOMAIN req.order)

IInv ==
    /\ TypeOK /\ AccountKeys /\ RuleKeys /\ RulesLined /\ FilesFollow /\ PlanFollows
    /\ RequestFits /\ RevisionNamesContent
----------------------------------------------------------------------------
(* Rows and positions *)

\* A row that moves keeps the rest.
LEMMA MovedRow ==
    ASSUME NEW q \in Rule, NEW x, NEW y, y = [q EXCEPT !.pos = x]
    PROVE  /\ y.pos = x /\ y.id = q.id /\ y.account = q.account
           /\ y.rev = q.rev /\ y.content = q.content
           /\ x \in 0 .. MaxRules => y \in Rule
  BY DEF Rule

\* So does a row that moves up to close a gap.
LEMMA CompactedRow ==
    ASSUME NEW S \in SUBSET Rule, NEW r, NEW x \in Compacted(S, r)
    PROVE  \E o \in S :
               /\ x.id = o.id /\ x.account = o.account /\ x.rev = o.rev /\ x.content = o.content
               /\ x.pos \in 0 .. MaxRules => x \in Rule
<1>1. PICK o \in S : x = [o EXCEPT !.pos = Cardinality({p \in S \ {r} : p.pos < o.pos})]
  BY DEF Compacted
<1>2. PICK c : c = Cardinality({p \in S \ {r} : p.pos < o.pos})
  OBVIOUS
<1>3. x = [o EXCEPT !.pos = c]
  BY <1>1, <1>2
<1> QED
  BY <1>3, MovedRow

\* So does a row that is reordered.
LEMMA ReorderedRow ==
    ASSUME NEW S \in SUBSET Rule, NEW order, NEW x \in Reordered(S, order)
    PROVE  \E o \in S :
               /\ x.id = o.id /\ x.account = o.account /\ x.rev = o.rev /\ x.content = o.content
               /\ x.pos \in 0 .. MaxRules => x \in Rule
<1>1. PICK o \in S : x = [o EXCEPT !.pos = order[o.id]]
  BY DEF Reordered
<1> QED
  BY <1>1, MovedRow

\* Rows that close a gap keep their identifiers apart.
LEMMA CompactedDistinct ==
    ASSUME NEW S \in SUBSET Rule, Distinct(S), NEW r
    PROVE  Distinct(Compacted(S, r))
<1> SUFFICES ASSUME NEW x \in Compacted(S, r), NEW y \in Compacted(S, r), x.id = y.id
             PROVE  x = y
  BY DEF Distinct
<1>1. PICK o \in S : x = [o EXCEPT !.pos = Cardinality({p \in S \ {r} : p.pos < o.pos})]
  BY DEF Compacted
<1>2. PICK u \in S : y = [u EXCEPT !.pos = Cardinality({p \in S \ {r} : p.pos < u.pos})]
  BY DEF Compacted
<1>3. x.id = o.id /\ y.id = u.id
  BY <1>1, <1>2, MovedRow
<1>4. o = u
  BY <1>3 DEF Distinct
<1> QED
  BY <1>1, <1>2, <1>4

\* Rows that are reordered keep their identifiers apart.
LEMMA ReorderedDistinct ==
    ASSUME NEW S \in SUBSET Rule, Distinct(S), NEW order
    PROVE  Distinct(Reordered(S, order))
<1> SUFFICES ASSUME NEW x \in Reordered(S, order), NEW y \in Reordered(S, order), x.id = y.id
             PROVE  x = y
  BY DEF Distinct
<1>1. PICK o \in S : x = [o EXCEPT !.pos = order[o.id]]
  BY DEF Reordered
<1>2. PICK u \in S : y = [u EXCEPT !.pos = order[u.id]]
  BY DEF Reordered
<1>3. x.id = o.id /\ y.id = u.id
  BY <1>1, <1>2, MovedRow
<1>4. o = u
  BY <1>3 DEF Distinct
<1> QED
  BY <1>1, <1>2, <1>4

\* A first part of the positions has as many members as it is long.
LEMMA FirstPositions ==
    ASSUME NEW n \in Nat
    PROVE  IsFiniteSet(0 .. n - 1) /\ Cardinality(0 .. n - 1) = n
<1>1. n - 1 \in Int /\ 0 \in Int
  OBVIOUS
<1>2. IsFiniteSet(0 .. n - 1)
  BY <1>1, FS_Interval
<1>3. Cardinality(0 .. n - 1) = IF 0 > n - 1 THEN 0 ELSE n - 1 - 0 + 1
  BY <1>1, FS_Interval
<1> QED
  BY <1>2, <1>3

\* As many identifiers as rules.
LEMMA IdsCounted ==
    ASSUME NEW S, IsFiniteSet(S), Distinct(S)
    PROVE  IsFiniteSet(IdsOf(S)) /\ Cardinality(IdsOf(S)) = Cardinality(S)
<1> DEFINE h == [r \in S |-> r.id]
<1>1. h \in Bijection(S, IdsOf(S))
  BY DEF Bijection, Injection, Surjection, IsInjective, IdsOf, Distinct
<1> QED
  BY <1>1, FS_Bijection DEF ExistsBijection

\* No rules at all are in line.
LEMMA LinedEmpty == ASSUME MailRulesAssumption PROVE Lined({})
  BY FS_EmptySet DEF Lined, MailRulesAssumption

\* The next position is behind the last one.
LEMMA NextPositionIs ==
    ASSUME MailRulesAssumption, NEW id, Lined(RulesOf(id))
    PROVE  NextPosition(id) = Cardinality(RulesOf(id))
<1> DEFINE n == Cardinality(RulesOf(id))
           used == {r.pos : r \in RulesOf(id)}
           Behind(p) == (\A q \in used : q < p) /\ (p = 0 \/ p - 1 \in used)
<1>1. n \in 0 .. MaxRules /\ used = 0 .. n - 1
  BY FS_CardinalityType DEF Lined, MailRulesAssumption
<1> HIDE DEF n, used
<1>2. n \in 0 .. MaxRules + 1 /\ Behind(n)
  BY <1>1 DEF MailRulesAssumption
<1>3. \A p \in 0 .. MaxRules + 1 : Behind(p) => p = n
  BY <1>1 DEF MailRulesAssumption
<1>4. NextPosition(id) = CHOOSE p \in 0 .. MaxRules + 1 : Behind(p)
  BY DEF NextPosition, used
<1> QED
  BY <1>2, <1>3, <1>4 DEF n

\* A rule behind the last one keeps the line.
LEMMA LinedAppend ==
    ASSUME MailRulesAssumption, NEW S, Lined(S), Cardinality(S) < MaxRules, NEW x, x.pos = Cardinality(S)
    PROVE  Lined(S \cup {x})
<1> DEFINE n == Cardinality(S)
<1>1. n \in Nat /\ \A r \in S : r.pos \in 0 .. n - 1
  BY FS_CardinalityType DEF Lined
<1>2. x \notin S
  BY <1>1
<1>3. IsFiniteSet(S \cup {x}) /\ Cardinality(S \cup {x}) = n + 1
  BY <1>2, FS_AddElement DEF Lined
<1>4. {r.pos : r \in S \cup {x}} = 0 .. n
  <2>1. {r.pos : r \in S \cup {x}} = {r.pos : r \in S} \cup {n}
    OBVIOUS
  <2> QED
    BY <1>1, <2>1 DEF Lined
<1>5. \A r, q \in S \cup {x} : r.pos = q.pos => r = q
  BY <1>1 DEF Lined
<1>6. 0 .. Cardinality(S \cup {x}) - 1 = 0 .. n /\ Cardinality(S \cup {x}) <= MaxRules
  BY <1>1, <1>3 DEF MailRulesAssumption
<1> QED
  BY <1>3, <1>4, <1>5, <1>6, Zenon DEF Lined

\* Rows that are replaced one for one, at new positions that are again the
\* first ones, are in line.
LEMMA LinedReplace ==
    ASSUME NEW S, IsFiniteSet(S), Cardinality(S) <= MaxRules, NEW f,
           \A r, q \in S : f[r].pos = f[q].pos => r = q,
           {f[r].pos : r \in S} = 0 .. Cardinality(S) - 1
    PROVE  Lined({f[r] : r \in S})
<1> DEFINE T == {f[r] : r \in S}
           g == [r \in S |-> f[r]]
<1>1. g \in Bijection(S, T)
  BY DEF Bijection, Injection, Surjection, IsInjective
<1>2. IsFiniteSet(T) /\ Cardinality(T) = Cardinality(S)
  BY <1>1, FS_Bijection DEF ExistsBijection
<1>3. {t.pos : t \in T} = {f[r].pos : r \in S}
  OBVIOUS
<1>4. \A t, u \in T : t.pos = u.pos => t = u
  OBVIOUS
<1> QED
  BY <1>2, <1>3, <1>4 DEF Lined

\* delete_mail_rule: the rules that remain close the gap.
LEMMA LinedCompact ==
    ASSUME MailRulesAssumption, NEW S \in SUBSET Rule, Lined(S), NEW r \in S
    PROVE  Lined(Compacted(S, r))
<1> DEFINE n == Cardinality(S)
           k == r.pos
           T == S \ {r}
           Shift(x) == IF x < k THEN x ELSE x - 1
           Rank(q) == Cardinality({p \in T : p.pos < q.pos})
<1>1. /\ n \in Nat /\ k \in 0 .. n - 1
      /\ \A q \in S : q.pos \in 0 .. n - 1
      /\ \A i \in 0 .. n - 1 : \E q \in S : q.pos = i
  BY FS_CardinalityType DEF Lined
<1>2. /\ IsFiniteSet(T) /\ Cardinality(T) = n - 1
      /\ \A q \in T : q.pos # k
  BY FS_RemoveElement DEF Lined
<1>3. ASSUME NEW q \in T
      PROVE  Rank(q) = Shift(q.pos)
  <2> DEFINE D == {p \in T : p.pos < q.pos}
             m == Shift(q.pos)
             g == [p \in D |-> Shift(p.pos)]
  <2>1. m \in Nat /\ q.pos \in 0 .. n - 1 /\ q.pos # k
    BY <1>1, <1>2
  <2>2. g \in [D -> 0 .. m - 1]
    BY <1>1, <1>2, <2>1
  <2>3. \A p, s \in D : g[p] = g[s] => p = s
    BY <1>1, <1>2 DEF Lined
  <2>4. ASSUME NEW i \in 0 .. m - 1 PROVE \E p \in D : g[p] = i
    <3>1. CASE i < k
      <4>1. PICK p \in S : p.pos = i
        BY <1>1, <2>1, <3>1
      <4> QED
        BY <1>1, <2>1, <3>1, <4>1
    <3>2. CASE ~(i < k)
      <4>1. PICK p \in S : p.pos = i + 1
        BY <1>1, <2>1, <3>2
      <4> QED
        BY <1>1, <2>1, <3>2, <4>1
    <3> QED
      BY <3>1, <3>2
  <2> HIDE DEF m, g
  <2>5. g \in Bijection(D, 0 .. m - 1)
    BY <2>2, <2>3, <2>4 DEF Bijection, Injection, Surjection, IsInjective
  <2>6. IsFiniteSet(D)
    BY <1>2, FS_Subset
  <2>7. Cardinality(0 .. m - 1) = Cardinality(D)
    BY <2>5, <2>6, FS_Bijection DEF ExistsBijection
  <2>8. Cardinality(0 .. m - 1) = m
    BY <2>1, FirstPositions
  <2> QED
    BY <2>7, <2>8 DEF m
<1> DEFINE f == [q \in T |-> [q EXCEPT !.pos = Rank(q)]]
<1>4. \A q \in T : f[q].pos = Shift(q.pos)
  <2> SUFFICES ASSUME NEW q \in T PROVE f[q].pos = Shift(q.pos)
    OBVIOUS
  <2>1. Rank(q) = Shift(q.pos)
    BY <1>3
  <2> HIDE DEF Rank, Shift
  <2>2. f[q] = [q EXCEPT !.pos = Rank(q)] /\ q \in Rule
    OBVIOUS
  <2> QED
    BY <2>1, <2>2, MovedRow
<1>5. Compacted(S, r) = {f[q] : q \in T}
  BY DEF Compacted
<1> HIDE DEF f
<1>6. \A q, p \in T : f[q].pos = f[p].pos => q = p
  BY <1>1, <1>2, <1>4 DEF Lined
<1>7. {f[q].pos : q \in T} = 0 .. Cardinality(T) - 1
  <2>1. ASSUME NEW q \in T PROVE f[q].pos \in 0 .. n - 2
    BY <1>1, <1>2, <1>4
  <2>2. ASSUME NEW i \in 0 .. n - 2 PROVE \E q \in T : f[q].pos = i
    <3>1. CASE i < k
      <4>1. PICK p \in S : p.pos = i
        BY <1>1
      <4> QED
        BY <1>1, <1>4, <3>1, <4>1
    <3>2. CASE ~(i < k)
      <4>1. PICK p \in S : p.pos = i + 1
        BY <1>1
      <4> QED
        BY <1>1, <1>4, <3>2, <4>1
    <3> QED
      BY <3>1, <3>2
  <2>3. 0 .. Cardinality(T) - 1 = 0 .. n - 2
    BY <1>1, <1>2
  <2> QED
    BY <2>1, <2>2, <2>3
<1>8. Cardinality(T) <= MaxRules
  BY <1>1, <1>2 DEF Lined, MailRulesAssumption
<1> HIDE DEF T
<1> QED
  BY <1>2, <1>5, <1>6, <1>7, <1>8, LinedReplace

\* reorder_mail_rules: an order that names every rule once keeps the line.
LEMMA LinedReorder ==
    ASSUME NEW S \in SUBSET Rule, Lined(S), Distinct(S), NEW o \in Orders(IdsOf(S))
    PROVE  Lined(Reordered(S, o))
<1> DEFINE n == Cardinality(S)
           ids == IdsOf(S)
           f == [r \in S |-> [r EXCEPT !.pos = o[r.id]]]
<1>1. n \in Nat /\ IsFiniteSet(ids) /\ Cardinality(ids) = n
  BY IdsCounted, FS_CardinalityType DEF Lined
<1>2. o \in [ids -> 0 .. n - 1] /\ \A i, j \in ids : o[i] = o[j] => i = j
  BY <1>1 DEF Orders
<1> HIDE DEF n
<1>3. o \in Injection(ids, 0 .. n - 1)
  BY <1>2 DEF Injection, IsInjective
<1>4. IsFiniteSet(0 .. n - 1) /\ Cardinality(0 .. n - 1) = n
  BY <1>1, FirstPositions
<1>5. o \in Surjection(ids, 0 .. n - 1)
  BY <1>1, <1>3, <1>4, FS_Injection
<1>6. \A r \in S : f[r].pos = o[r.id] /\ r.id \in ids
  BY MovedRow DEF IdsOf
<1>7. \A i \in ids : \E r \in S : r.id = i
  BY DEF IdsOf
<1>8. Reordered(S, o) = {f[r] : r \in S}
  BY DEF Reordered
<1> HIDE DEF f, ids
<1>9. \A r, q \in S : f[r].pos = f[q].pos => r = q
  BY <1>2, <1>6 DEF Distinct
<1>10. {f[r].pos : r \in S} = 0 .. n - 1
  <2>1. \A r \in S : f[r].pos \in 0 .. n - 1
    BY <1>2, <1>6
  <2>2. ASSUME NEW p \in 0 .. n - 1 PROVE \E r \in S : f[r].pos = p
    BY <1>5, <1>6, <1>7 DEF Surjection
  <2> QED
    BY <2>1, <2>2
<1>11. IsFiniteSet(S) /\ n <= MaxRules
  BY DEF n, Lined
<1> QED
  BY <1>8, <1>9, <1>10, <1>11, LinedReplace DEF n

\* An update leaves the row where it stands.
LEMMA LinedUpdate ==
    ASSUME NEW S, Lined(S), NEW r \in S, NEW x, x.pos = r.pos
    PROVE  Lined((S \ {r}) \cup {x})
<1> DEFINE f == [q \in S |-> IF q = r THEN x ELSE q]
<1>1. \A q \in S : f[q].pos = q.pos
  OBVIOUS
<1>2. (S \ {r}) \cup {x} = {f[q] : q \in S}
  OBVIOUS
<1> HIDE DEF f
<1>3. {f[q].pos : q \in S} = {q.pos : q \in S}
  BY <1>1
<1>4. \A q, p \in S : f[q].pos = f[p].pos => q = p
  BY <1>1 DEF Lined
<1>5. IsFiniteSet(S) /\ Cardinality(S) <= MaxRules /\ {f[q].pos : q \in S} = 0 .. Cardinality(S) - 1
  BY <1>3 DEF Lined
<1> QED
  BY <1>2, <1>4, <1>5, LinedReplace

\* Positions in line stay below the limit.
LEMMA LinedIn ==
    ASSUME MailRulesAssumption, NEW S, Lined(S)
    PROVE  \A r \in S : r.pos \in 0 .. MaxRules - 1 /\ r.pos \in 0 .. MaxRules
<1>1. Cardinality(S) \in Nat /\ Cardinality(S) <= MaxRules
  BY FS_CardinalityType DEF Lined
<1> SUFFICES ASSUME NEW r \in S PROVE r.pos \in 0 .. MaxRules - 1 /\ r.pos \in 0 .. MaxRules
  OBVIOUS
<1>2. r.pos \in 0 .. Cardinality(S) - 1
  BY DEF Lined
<1> QED
  BY <1>1, <1>2 DEF MailRulesAssumption

\* The bridge accepts rules that are in line.
LEMMA LinedAccepted ==
    ASSUME MailRulesAssumption, NEW S, Lined(S), Distinct(S)
    PROVE  BridgeAccepts(S)
  BY LinedIn DEF BridgeAccepts, Lined, Distinct

----------------------------------------------------------------------------
(* What a commit does to the rows *)

\* The rows old of the account are replaced by new ones: under a fresh
\* identifier, or with a later revision or the same content.
Replaces(old, new) ==
    /\ pc = "paused" /\ pc' = "committed"
    /\ old \in SUBSET RulesOf(req.account) /\ new \in SUBSET Rule
    /\ rules' = (rules \ old) \cup new
    /\ written' = written \cup {<<r.id, r.rev, r.content>> : r \in new}
    /\ issued \subseteq issued' /\ issued' \subseteq AccountIds \cup RuleIds
    /\ new # {} => Stored(req.account)
    /\ Lined((RulesOf(req.account) \ old) \cup new)
    /\ Distinct(new)
    /\ \A r \in new :
        /\ r.account = req.account /\ r.id \in issued'
        /\ \/ r.id \notin issued
           \/ \E o \in old : /\ o.id = r.id
                             /\ r.rev > o.rev \/ (r.rev = o.rev /\ r.content = o.content)
    /\ UNCHANGED <<accounts, files, mailboxes, req, plan, faults>>

\* Every commit replaces rows of the account that asked.
LEMMA CommitReplaces ==
    ASSUME MailRulesAssumption, IInv,
           CommitCreate \/ CommitUpdate \/ CommitDelete \/ CommitReorder
    PROVE  \E old, new : Replaces(old, new)
<1> DEFINE S == RulesOf(req.account)
<1>1. /\ pc = "paused" /\ req \in Served /\ req # None /\ req.kind # "remove"
      /\ rules \subseteq Rule /\ issued \subseteq AccountIds \cup RuleIds
      /\ S \in SUBSET Rule /\ S \subseteq rules
  BY DEF IInv, TypeOK, RequestFits, RulesOf, CommitCreate, CommitUpdate, CommitDelete,
         CommitReorder
<1>2. Lined(S) /\ Distinct(S)
  BY <1>1 DEF IInv, RulesLined, RuleKeys, Served, Distinct
<1>3. S # {} => Stored(req.account)
  BY DEF IInv, RuleKeys, RulesOf
<1>4. \A r \in S : r.id \in issued
  BY <1>1 DEF IInv, RuleKeys
<1>5. CASE CommitCreate
  <2>1. PICK id \in RuleIds \ issued :
          /\ Committed({[id |-> id, account |-> req.account, pos |-> NextPosition(req.account),
                         rev |-> 1, content |-> req.content]}, rules)
          /\ issued' = issued \cup {id}
    BY <1>5 DEF CommitCreate
  <2> DEFINE x == [id |-> id, account |-> req.account, pos |-> NextPosition(req.account),
                   rev |-> 1, content |-> req.content]
  <2>2. NextPosition(req.account) = Cardinality(S) /\ Cardinality(S) < MaxRules
    BY <1>2, <1>5, NextPositionIs DEF CommitCreate
  <2>3. x \in Rule
    <3>1. NextPosition(req.account) \in 0 .. MaxRules
      BY <1>2, <2>2, FS_CardinalityType DEF Lined, MailRulesAssumption
    <3>2. req.content \in Contents /\ 1 \in 1 .. MaxRevision /\ req.account \in AccountIds
      BY <1>1, <1>5 DEF CommitCreate, IInv, RequestFits, MailRulesAssumption, Served
    <3> QED
      BY <3>1, <3>2 DEF Rule
  <2>4. Lined(S \cup {x})
    BY <1>2, <2>2, LinedAppend
  <2>5. Replaces({}, {x})
    <3>1. (S \ {}) \cup {x} = S \cup {x} /\ (rules \ {}) \cup {x} = rules \cup {x}
      OBVIOUS
    <3>2. x.id = id /\ x.account = req.account
      OBVIOUS
    <3> HIDE DEF x
    <3> QED
      BY <1>1, <1>5, <2>1, <2>3, <2>4, <3>1, <3>2 DEF Replaces, Distinct, Committed, CommitCreate, x
  <2> QED
    BY <2>5
<1>6. CASE CommitUpdate
  <2>1. PICK r \in S :
          /\ r.id = req.rule /\ r.rev = req.rev
          /\ Committed({[id |-> r.id, account |-> r.account, pos |-> r.pos, rev |-> r.rev + 1,
                         content |-> req.content]}, rules \ {r})
    BY <1>6 DEF CommitUpdate
  <2> DEFINE x == [id |-> r.id, account |-> r.account, pos |-> r.pos, rev |-> r.rev + 1,
                   content |-> req.content]
  <2>2. x.id = r.id /\ x.account = req.account /\ x.rev > r.rev /\ x.pos = r.pos
    BY <1>1 DEF RulesOf, Rule
  <2>3. x \in Rule
    <3>1. r.rev + 1 \in 1 .. MaxRevision
      BY <1>1, <1>6, <2>1 DEF CommitUpdate, IInv, RequestFits, MailRulesAssumption
    <3>2. req.content \in Contents
      BY <1>1, <1>6 DEF CommitUpdate, IInv, RequestFits
    <3> QED
      BY <1>1, <3>1, <3>2 DEF Rule
  <2> HIDE DEF x
  <2>4. Lined((S \ {r}) \cup {x})
    BY <1>2, <2>2, LinedUpdate
  <2>5. Replaces({r}, {x})
    <3>1. {r} \in SUBSET S /\ Stored(req.account) /\ r.id \in issued
      BY <1>3, <1>4
    <3>2. Committed({x}, rules \ {r}) /\ UNCHANGED issued
      BY <1>6, <2>1 DEF x, CommitUpdate
    <3> QED
      BY <1>1, <2>2, <2>3, <2>4, <3>1, <3>2 DEF Replaces, Distinct, Committed
  <2> QED
    BY <2>5
<1>7. CASE CommitDelete
  <2>1. PICK r \in S : Committed(Compacted(S, r), rules \ S)
    BY <1>7 DEF CommitDelete
  <2> DEFINE new == Compacted(S, r)
  <2>3. Distinct(new) /\ \A x \in new : \E o \in S :
             /\ x.id = o.id /\ x.account = o.account /\ x.rev = o.rev /\ x.content = o.content
             /\ x.pos \in 0 .. MaxRules => x \in Rule
    BY <1>1, <1>2, CompactedDistinct, CompactedRow
  <2>4. Lined(new)
    BY <1>1, <1>2, LinedCompact
  <2>5. \A x \in new : x.pos \in 0 .. MaxRules
    BY <2>4, LinedIn
  <2> HIDE DEF new
  <2>6. (S \ S) \cup new = new
    OBVIOUS
  <2>7. \A x \in new : x.account = req.account /\ x \in Rule
    BY <2>3, <2>5 DEF RulesOf
  <2>8. \A x \in new :
            /\ x.id \in issued
            /\ \E o \in S : /\ o.id = x.id
                            /\ x.rev > o.rev \/ (x.rev = o.rev /\ x.content = o.content)
    BY <1>4, <2>3
  <2>9. Replaces(S, new)
    BY <1>1, <1>3, <2>1, <2>3, <2>4, <2>6, <2>7, <2>8, <1>7 DEF Replaces, Distinct, Committed, CommitDelete, new
  <2> QED
    BY <2>9
<1>8. CASE CommitReorder
  <2> DEFINE new == Reordered(S, req.order)
  <2>1. Committed(new, rules \ S)
    BY <1>8 DEF CommitReorder
  <2>3. Distinct(new) /\ \A x \in new : \E o \in S :
             /\ x.id = o.id /\ x.account = o.account /\ x.rev = o.rev /\ x.content = o.content
             /\ x.pos \in 0 .. MaxRules => x \in Rule
    BY <1>1, <1>2, ReorderedDistinct, ReorderedRow
  <2>4. Lined(new)
    <3>1. req.order \in Orders(IdsOf(S))
      BY <1>1, <1>8 DEF CommitReorder, IInv, RequestFits
    <3> QED
      BY <1>1, <1>2, <3>1, LinedReorder
  <2>5. \A x \in new : x.pos \in 0 .. MaxRules
    BY <2>4, LinedIn
  <2> HIDE DEF new
  <2>6. (S \ S) \cup new = new
    OBVIOUS
  <2>7. \A x \in new : x.account = req.account /\ x \in Rule
    BY <2>3, <2>5 DEF RulesOf
  <2>8. \A x \in new :
            /\ x.id \in issued
            /\ \E o \in S : /\ o.id = x.id
                            /\ x.rev > o.rev \/ (x.rev = o.rev /\ x.content = o.content)
    BY <1>4, <2>3
  <2>9. Replaces(S, new)
    BY <1>1, <1>3, <2>1, <2>3, <2>4, <2>6, <2>7, <2>8, <1>8 DEF Replaces, Distinct, Committed, CommitReorder
  <2> QED
    BY <2>9
<1> QED
  BY <1>5, <1>6, <1>7, <1>8

----------------------------------------------------------------------------
(* What a request brings *)

\* A request that pauses delivery comes from a stored account and fits.
Asked(a, q) ==
    /\ q \in Served /\ q.account = a.id /\ q.email = a.email /\ q.kind # "remove"
    /\ q.kind \in {"create", "update"} => q.content \in Contents
    /\ q.kind = "update" => q.rev \in Nat /\ q.rev < MaxRevision
    /\ q.kind = "reorder" => q.order \in Orders(DOMAIN q.order)

\* Every order the browser may send is one of positions below the limit.
LEMMA OrderIn ==
    ASSUME MailRulesAssumption, IInv, NEW a \in accounts,
           NEW o \in Orders(IdsOf(RulesOf(a.id)))
    PROVE  /\ o \in Numberings
           /\ o \in Orders(DOMAIN o)
<1> DEFINE S == RulesOf(a.id)
           ids == IdsOf(S)
<1>1. Lined(S) /\ Distinct(S) /\ ids \in SUBSET RuleIds
  BY DEF IInv, TypeOK, RulesLined, RuleKeys, Distinct, RulesOf, IdsOf, Rule
<1>2. Cardinality(ids) \in Nat /\ Cardinality(ids) <= MaxRules
  BY <1>1, IdsCounted, FS_CardinalityType DEF Lined
<1>3. o \in [ids -> 0 .. Cardinality(ids) - 1] /\ DOMAIN o = ids
  BY DEF Orders
<1> HIDE DEF ids
<1>4. o \in [ids -> 0 .. MaxRules]
  BY <1>2, <1>3 DEF MailRulesAssumption
<1> QED
  BY <1>1, <1>3, <1>4 DEF ids, Numberings

\* Every request either pauses delivery, fails to, or removes an account.
LEMMA RequestsAsk ==
    ASSUME MailRulesAssumption, IInv, Requests
    PROVE  \E a \in accounts : \/ \E q : Asked(a, q) /\ PauseDelivery(a, q)
                               \/ PauseFails(a)
                               \/ AccountsDeleteImap(a)
<1>1. PICK a \in accounts :
        \/ \E c \in Contents : RulesCreate(a, c)
        \/ \E r \in RulesOf(a.id) :
            \/ RulesDelete(a, r)
            \/ r.rev < MaxRevision /\ \E c \in Contents : RulesUpdate(a, r, c)
        \/ \E order \in Orders(IdsOf(RulesOf(a.id))) : RulesReorder(a, order)
        \/ PauseFails(a)
        \/ AccountsDeleteImap(a)
  BY DEF Requests
<1>2. a \in [id : AccountIds, email : Emails] /\ RulesOf(a.id) \subseteq Rule
  BY DEF IInv, TypeOK, RulesOf
<1>3. ASSUME NEW c \in Contents, RulesCreate(a, c)
      PROVE  \E q : Asked(a, q) /\ PauseDelivery(a, q)
  <2>1. PICK q : q = Request("create", a, None, None, c, None)
    OBVIOUS
  <2>2. Asked(a, q)
    <3>1. q \in Served /\ q.kind = "create" /\ q.account = a.id /\ q.email = a.email
          /\ q.content = c
      BY <1>2, <2>1 DEF Request, Served
    <3> QED
      BY <3>1 DEF Asked
  <2> QED
    BY <1>3, <2>1, <2>2 DEF RulesCreate
<1>4. ASSUME NEW r \in RulesOf(a.id), RulesDelete(a, r)
      PROVE  \E q : Asked(a, q) /\ PauseDelivery(a, q)
  <2>1. PICK q : q = Request("delete", a, r.id, None, None, None)
    OBVIOUS
  <2>2. r.id \in RuleIds
    BY <1>2 DEF Rule
  <2>3. Asked(a, q)
    <3>1. q \in Served /\ q.kind = "delete" /\ q.account = a.id /\ q.email = a.email
      BY <1>2, <2>1, <2>2 DEF Request, Served
    <3> QED
      BY <3>1 DEF Asked
  <2> QED
    BY <1>4, <2>1, <2>3 DEF RulesDelete
<1>5. ASSUME NEW r \in RulesOf(a.id), r.rev < MaxRevision, NEW c \in Contents,
             RulesUpdate(a, r, c)
      PROVE  \E q : Asked(a, q) /\ PauseDelivery(a, q)
  <2>1. PICK q : q = Request("update", a, r.id, r.rev, c, None)
    OBVIOUS
  <2>2. r.id \in RuleIds /\ r.rev \in 1 .. MaxRevision
    BY <1>2 DEF Rule
  <2>3. q \in Served /\ q.kind = "update" /\ q.account = a.id /\ q.email = a.email
        /\ q.rev = r.rev /\ q.content = c
    BY <1>2, <2>1, <2>2 DEF Request, Served
  <2>4. Asked(a, q)
    BY <1>5, <2>2, <2>3 DEF Asked, MailRulesAssumption
  <2> QED
    BY <1>5, <2>1, <2>4 DEF RulesUpdate
<1>6. ASSUME NEW o \in Orders(IdsOf(RulesOf(a.id))), RulesReorder(a, o)
      PROVE  \E q : Asked(a, q) /\ PauseDelivery(a, q)
  <2>1. PICK q : q = Request("reorder", a, None, None, None, o)
    OBVIOUS
  <2>2. q \in Served /\ q.kind = "reorder" /\ q.account = a.id /\ q.email = a.email
        /\ q.order = o
    BY <1>2, <2>1, OrderIn DEF Request, Served
  <2>3. Asked(a, q)
    BY <2>2, OrderIn DEF Asked
  <2> QED
    BY <1>6, <2>1, <2>3 DEF RulesReorder
<1> QED
  BY <1>1, <1>3, <1>4, <1>5, <1>6

----------------------------------------------------------------------------
(* When a list of rules stays one that delivery may follow *)

\* Nothing that the list is compared with changes.
LEMMA FollowsKept ==
    ASSUME UNCHANGED <<accounts, rules>>, issued \subseteq issued', NEW e, NEW rs, Follows(e, rs)
    PROVE  Follows(e, rs)'
  BY DEF Follows, Wanted, BridgeAccepts

\* A commit of another address, or under an empty list.
LEMMA FollowsReplaced ==
    ASSUME IInv, NEW old, NEW new, Replaces(old, new), NEW e, NEW rs, Follows(e, rs),
           e # req.email \/ rs = {}
    PROVE  Follows(e, rs)'
<1>1. req # None /\ \A a \in accounts : a.id = req.account => a.email = req.email
  BY DEF Replaces, IInv, TypeOK, RequestFits
<1>2. BridgeAccepts(rs)' /\ \A r \in rs : r.id \in issued'
  BY DEF Follows, BridgeAccepts, Replaces
<1>3. CASE rs = {}
  BY <1>2, <1>3 DEF Follows
<1>4. CASE e # req.email
  <2>1. Wanted(e)' = Wanted(e)
    BY <1>1, <1>4 DEF Replaces, Wanted, RulesOf
  <2>2. ASSUME NEW r \in rs, NEW q \in rules', q.id = r.id
        PROVE  rs = Wanted(e)
    <3>1. CASE q \in rules
      BY <2>2, <3>1 DEF Follows
    <3>2. CASE q \notin rules
      <4>1. q \in new /\ r.id \in issued
        BY <2>2, <3>2 DEF Replaces, Follows
      <4>2. PICK o \in old : o.id = q.id
        BY <2>2, <4>1 DEF Replaces
      <4>3. o \in rules
        BY DEF Replaces, RulesOf
      <4> QED
        BY <2>2, <4>2, <4>3 DEF Follows
    <3> QED
      BY <3>1, <3>2
  <2> QED
    BY <1>2, <2>1, <2>2 DEF Follows
<1> QED
  BY <1>3, <1>4

\* An account is removed with its rules.
LEMMA FollowsForgotten ==
    ASSUME IInv, NEW id, accounts' = {a \in accounts : a.id # id}, rules' = rules \ RulesOf(id),
           UNCHANGED issued, NEW e, NEW rs, Follows(e, rs)
    PROVE  Follows(e, rs)'
<1>1. BridgeAccepts(rs)' /\ \A r \in rs : r.id \in issued'
  BY DEF Follows, BridgeAccepts
<1>2. ASSUME NEW r \in rs, NEW q \in rules', q.id = r.id
      PROVE  rs = Wanted(e)'
  <2>1. rs = Wanted(e) /\ q \in rules
    BY <1>2 DEF Follows
  <2>2. r \in rules /\ r = q /\ q.account # id
    BY <1>2, <2>1 DEF Wanted, RulesOf, IInv, RuleKeys, Distinct
  <2>3. PICK a \in accounts : a.email = e /\ a.id = r.account
    BY <2>1 DEF Wanted
  <2>4. \A b \in accounts : b.email = e => b = a
    BY <2>3 DEF IInv, AccountKeys
  <2>5. Wanted(e)' = Wanted(e)
    BY <2>2, <2>3, <2>4 DEF Wanted, RulesOf
  <2> QED
    BY <2>1, <2>5
<1> QED
  BY <1>1, <1>2 DEF Follows

\* An account is added under a fresh identifier.
LEMMA FollowsAdded ==
    ASSUME IInv, NEW b, b.id \notin issued, accounts' = accounts \cup {b}, UNCHANGED rules,
           issued \subseteq issued', NEW e, NEW rs, Follows(e, rs)
    PROVE  Follows(e, rs)'
<1>1. \A r \in rules : r.account # b.id
  BY DEF IInv, RuleKeys, AccountKeys, Stored
<1>2. Wanted(e)' = Wanted(e)
  BY <1>1 DEF Wanted
<1> QED
  BY <1>2 DEF Follows, BridgeAccepts

\* No rules at all may always be followed.
LEMMA FollowsNothing == ASSUME NEW e PROVE Follows(e, {})'
  BY DEF Follows, BridgeAccepts

\* The rules of an account may be followed for its address.
LEMMA FollowsStored ==
    ASSUME MailRulesAssumption, IInv, NEW a \in accounts, NEW rs, rs = RulesOf(a.id)
    PROVE  Follows(a.email, rs)
<1>1. Lined(rs) /\ Distinct(rs) /\ \A r \in rs : r.id \in issued
  BY DEF IInv, TypeOK, RulesLined, RuleKeys, Distinct, RulesOf
<1>2. BridgeAccepts(rs)
  BY <1>1, LinedAccepted
<1>3. rs = Wanted(a.email)
  BY DEF Wanted, RulesOf, IInv, AccountKeys
<1> QED
  BY <1>1, <1>2, <1>3 DEF Follows

\* The files that stay are followed on, if each list in them may be.
LEMMA FilesKept ==
    ASSUME FilesFollow, UNCHANGED files,
           \A e \in Emails : \A rs : rs = Effective(e) /\ Follows(e, rs) => Follows(e, rs)'
    PROVE  FilesFollow'
<1> SUFFICES ASSUME NEW e \in Emails PROVE Follows(e, Effective(e))'
  BY DEF FilesFollow
<1>1. PICK rs : rs = Effective(e)
  OBVIOUS
<1>2. Follows(e, rs)'
  BY <1>1 DEF FilesFollow
<1>3. Effective(e)' = rs
  BY <1>1 DEF Effective
<1> QED
  BY <1>2, <1>3 DEF Follows

\* One file is replaced by a list that may be followed.
LEMMA FilesPublished ==
    ASSUME TypeOK, FilesFollow, UNCHANGED <<accounts, rules, issued>>, NEW f \in Emails, NEW rs,
           files' = [files EXCEPT ![f] = rs], rs = Missing \/ Follows(f, rs)
    PROVE  FilesFollow'
<1> SUFFICES ASSUME NEW e \in Emails PROVE Follows(e, Effective(e))'
  BY DEF FilesFollow
<1>1. CASE e # f
  <2>1. PICK ls : ls = Effective(e)
    OBVIOUS
  <2>2. Follows(e, ls)'
    BY <2>1, FollowsKept DEF FilesFollow
  <2>3. Effective(e)' = ls
    BY <1>1, <2>1 DEF Effective, TypeOK
  <2> QED
    BY <2>2, <2>3 DEF Follows
<1>2. CASE e = f /\ rs = Missing
  <2>1. Effective(e)' = {}
    BY <1>2 DEF Effective, TypeOK
  <2> QED
    BY <2>1, FollowsNothing DEF Follows
<1>3. CASE e = f /\ rs # Missing
  <2>1. Effective(e)' = rs
    BY <1>3 DEF Effective, TypeOK
  <2>2. Follows(e, rs)'
    BY <1>3, FollowsKept
  <2> QED
    BY <2>1, <2>2 DEF Follows
<1> QED
  BY <1>1, <1>2, <1>3

----------------------------------------------------------------------------
(* Each part of the invariant is kept by every step. *)

\* An empty store without files, and the helper down.
LEMMA InitIInv == ASSUME MailRulesAssumption, Init PROVE IInv
<1>1. TypeOK
  <2>1. \A e \in Emails : Missing \in (SUBSET Rule) \cup {Missing}
    OBVIOUS
  <2>2. files \in [Emails -> (SUBSET Rule) \cup {Missing}]
    BY <2>1, Zenon DEF Init
  <2>3. DOMAIN plan = {}
    BY DEF Init
  <2> QED
    BY <2>2, <2>3 DEF Init, TypeOK, Steps, MailRulesAssumption
<1>2. AccountKeys /\ RuleKeys /\ RevisionNamesContent /\ PlanFollows /\ RequestFits
  BY DEF Init, AccountKeys, RuleKeys, Distinct, RevisionNamesContent, PlanFollows, RequestFits
<1>3. RulesLined
  <2>1. \A id \in AccountIds : RulesOf(id) = {}
    BY DEF Init, RulesOf
  <2> QED
    BY <2>1, LinedEmpty DEF RulesLined
<1>4. FilesFollow
  BY DEF Init, FilesFollow, Effective, Follows, BridgeAccepts
<1> QED
  BY <1>1, <1>2, <1>3, <1>4 DEF IInv

\* Every step keeps the types: a request is there exactly while one is served,
\* and no position or revision leaves its range.
LEMMA TypeStep ==
    ASSUME MailRulesAssumption, IInv, [Next]_vars
    PROVE  TypeOK'
<1> USE DEF IInv, TypeOK, Steps, helper
<1>1. CASE StartHelper
  <2>1. DOMAIN plan' \subseteq Emails /\ \A e \in DOMAIN plan' : plan'[e] \subseteq Rule
    BY <1>1 DEF StartHelper
  <2> QED
    BY <1>1, <2>1 DEF StartHelper
<1>2. CASE StopHelper
  BY <1>2 DEF StopHelper
<1>3. CASE Crash
  BY <1>3 DEF Crash, Fault, MailRulesAssumption
<1>4. ASSUME NEW e \in Emails, RemoveOldSnapshot(e) PROVE TypeOK'
  <2>1. files' \in [Emails -> (SUBSET Rule) \cup {Missing}]
    BY <1>4 DEF RemoveOldSnapshot
  <2> QED
    BY <1>4, <2>1 DEF RemoveOldSnapshot
<1>5. ASSUME NEW e \in Emails, PublishPlanned(e) PROVE TypeOK'
  BY <1>5 DEF PublishPlanned, Publish
<1>6. CASE OldSnapshotsRemoved
  BY <1>6 DEF OldSnapshotsRemoved
<1>7. CASE HelperReady
  BY <1>7 DEF HelperReady
<1>8. ASSUME NEW old, NEW new, Replaces(old, new) PROVE TypeOK'
  <2>1. rules' \subseteq Rule /\ issued' \subseteq AccountIds \cup RuleIds
    BY <1>8 DEF Replaces
  <2>2. written' \subseteq RuleIds \X (1 .. MaxRevision) \X Contents
    BY <1>8 DEF Replaces, Rule
  <2> QED
    BY <1>8, <2>1, <2>2 DEF Replaces
<1>9. CASE CommitFails
  BY <1>9 DEF CommitFails, Fault, MailRulesAssumption
<1>10. CASE PublishRules
  <2>1. RulesOf(req.account) \subseteq Rule /\ req.email \in Emails
    BY <1>10 DEF PublishRules, RulesOf, Served
  <2> QED
    BY <1>10, <2>1 DEF PublishRules, Publish
<1>11. CASE PublishRulesFails
  <2>1. RulesOf(req.account) \subseteq Rule /\ req.email \in Emails
    BY <1>11 DEF PublishRulesFails, RulesOf, Served
  <2>2. files' \in [Emails -> (SUBSET Rule) \cup {Missing}] /\ faults' \in 0 .. MaxFaults
    BY <1>11, <2>1 DEF PublishRulesFails, PublishFails, Publish, Fault, MailRulesAssumption
  <2> QED
    BY <1>11, <2>2 DEF PublishRulesFails
<1>12. CASE RemoveSnapshot
  <2>1. req.email \in Emails
    BY <1>12 DEF RemoveSnapshot, Served
  <2>2. files' \in [Emails -> (SUBSET Rule) \cup {Missing}]
    BY <1>12, <2>1 DEF RemoveSnapshot
  <2> QED
    BY <1>12, <2>2 DEF RemoveSnapshot
<1>13. CASE DeleteAccount
  BY <1>13 DEF DeleteAccount
<1>14. ASSUME NEW a \in accounts, NEW q, Asked(a, q), PauseDelivery(a, q) PROVE TypeOK'
  <2>1. q # None /\ a.email \in Emails
    BY <1>14 DEF Asked, MailRulesAssumption
  <2> QED
    BY <1>14, <2>1 DEF PauseDelivery, Publish, Asked
<1>15. ASSUME NEW a \in accounts, PauseFails(a) PROVE TypeOK'
  <2>1. files' \in [Emails -> (SUBSET Rule) \cup {Missing}] /\ faults' \in 0 .. MaxFaults
    BY <1>15 DEF PauseFails, PublishFails, Publish, Fault, MailRulesAssumption
  <2> QED
    BY <1>15, <2>1 DEF PauseFails
<1>16. ASSUME NEW a \in accounts, AccountsDeleteImap(a) PROVE TypeOK'
  <2>1. Request("remove", a, None, None, None, None) \in Served
    BY DEF Request, Served
  <2>2. req' \in Served /\ req' # None
    BY <1>16, <2>1 DEF AccountsDeleteImap, MailRulesAssumption
  <2> QED
    BY <1>16, <2>2 DEF AccountsDeleteImap
<1>17. CASE DeleteImapFails
  BY <1>17 DEF DeleteImapFails, Fault, MailRulesAssumption
<1>18. ASSUME NEW e \in Emails, AddAccount(e) PROVE TypeOK'
  <2>1. accounts' \subseteq [id : AccountIds, email : Emails]
        /\ issued' \subseteq AccountIds \cup RuleIds
    BY <1>18 DEF AddAccount
  <2> QED
    BY <1>18, <2>1 DEF AddAccount
<1>19. ASSUME NEW e \in Emails, MaddyChanges(e) PROVE TypeOK'
  BY <1>19 DEF MaddyChanges
<1>20. ASSUME NEW a \in accounts, AuthPurge(a) PROVE TypeOK'
  BY <1>20 DEF AuthPurge
<1>21. CASE UNCHANGED vars
  BY <1>21 DEF vars
<1> QED
  BY <1>1, <1>2, <1>3, <1>4, <1>5, <1>6, <1>7, <1>8, <1>9, <1>10, <1>11,
     <1>12, <1>13, <1>14, <1>15, <1>16, <1>17, <1>18, <1>19, <1>20, <1>21, CommitReplaces, RequestsAsk
  DEF Next, HelperStep

\* Accounts, rules and revisions keep their names whatever is committed.
LEMMA KeysStep ==
    ASSUME MailRulesAssumption, IInv, [Next]_vars
    PROVE  AccountKeys' /\ RuleKeys' /\ RulesLined' /\ RevisionNamesContent'
<1> DEFINE Goal == AccountKeys /\ RuleKeys /\ RulesLined /\ RevisionNamesContent
<1> USE DEF IInv, helper
<1>a. ASSUME UNCHANGED <<accounts, rules, issued, written>> PROVE Goal'
  BY <1>a DEF AccountKeys, RuleKeys, Distinct, Stored, RulesLined, RulesOf, Lined,
              RevisionNamesContent
<1>b. ASSUME NEW id, accounts' = {a \in accounts : a.id # id}, rules' = rules \ RulesOf(id),
             UNCHANGED <<issued, written>>
      PROVE  Goal'
  <2>1. AccountKeys' /\ RevisionNamesContent'
    BY <1>b DEF AccountKeys, RevisionNamesContent
  <2>2. RuleKeys'
    BY <1>b DEF RuleKeys, Distinct, Stored, RulesOf
  <2>3. ASSUME NEW k \in AccountIds PROVE Lined(RulesOf(k))'
    <3>1. RulesOf(k)' = RulesOf(k) \/ RulesOf(k)' = {}
      BY <1>b DEF RulesOf
    <3>2. Lined(RulesOf(k)) /\ Lined({})
      BY LinedEmpty DEF RulesLined
    <3> QED
      BY <3>1, <3>2 DEF Lined
  <2> QED
    BY <2>1, <2>2, <2>3 DEF RulesLined
<1>1. CASE StartHelper
  BY <1>1, <1>a DEF StartHelper
<1>2. CASE StopHelper
  BY <1>2, <1>a DEF StopHelper
<1>3. CASE Crash
  BY <1>3, <1>a DEF Crash
<1>4. ASSUME NEW e \in Emails, RemoveOldSnapshot(e) PROVE Goal'
  BY <1>4, <1>a DEF RemoveOldSnapshot
<1>5. ASSUME NEW e \in Emails, PublishPlanned(e) PROVE Goal'
  BY <1>5, <1>a DEF PublishPlanned
<1>6. CASE OldSnapshotsRemoved
  BY <1>6, <1>a DEF OldSnapshotsRemoved
<1>7. CASE HelperReady
  BY <1>7, <1>a DEF HelperReady
<1>8. ASSUME NEW old, NEW new, Replaces(old, new) PROVE Goal'
  <2> USE DEF TypeOK
  <2>1. AccountKeys'
    BY <1>8 DEF Replaces, AccountKeys
  <2>2. ASSUME NEW r \in rules \ old, NEW q \in new PROVE r.id # q.id
    <3>1. r.id \in issued /\ old \subseteq rules
      BY <1>8 DEF Replaces, RuleKeys, RulesOf
    <3>2. q.id \notin issued \/ \E o \in old : o.id = q.id
      BY <1>8 DEF Replaces
    <3> QED
      BY <2>2, <3>1, <3>2 DEF RuleKeys, Distinct
  <2>3. ASSUME NEW q \in new, NEW w \in written, w[1] = q.id
        PROVE  \E o \in old : /\ o.id = q.id /\ w[2] <= o.rev
                              /\ q.rev > o.rev \/ (q.rev = o.rev /\ q.content = o.content)
                              /\ <<o.id, o.rev, o.content>> \in written
    BY <1>8, <2>3 DEF Replaces, RuleKeys, RulesOf
  <2>4. ASSUME NEW w \in written' PROVE \/ w \in written
                                        \/ \E q \in new : w = <<q.id, q.rev, q.content>>
    BY <1>8, <2>4 DEF Replaces
  <2>5. \A q \in new : <<q.id, q.rev, q.content>> \in written' /\ q \in Rule
    BY <1>8 DEF Replaces
  <2>6. RuleKeys'
    <3>1. Distinct(rules)'
      BY <1>8, <2>2 DEF Replaces, RuleKeys, Distinct
    <3>2. ASSUME NEW r \in rules' PROVE Stored(r.account)' /\ r.id \in issued'
      BY <1>8, <3>2 DEF Replaces, RuleKeys, Stored
    <3>3. ASSUME NEW r \in rules' PROVE <<r.id, r.rev, r.content>> \in written'
      BY <1>8, <2>5, <3>3 DEF Replaces, RuleKeys
    <3>4. ASSUME NEW r \in rules', NEW w \in written', w[1] = r.id PROVE w[2] <= r.rev
      <4>1. CASE r \in new /\ w \in written
        <5>1. PICK o \in old : /\ w[2] <= o.rev
                               /\ r.rev > o.rev \/ (r.rev = o.rev /\ r.content = o.content)
          BY <2>3, <3>4, <4>1
        <5>2. o \in Rule /\ r \in Rule /\ w \in RuleIds \X (1 .. MaxRevision) \X Contents
          BY <1>8, <2>5, <4>1 DEF Replaces, RulesOf
        <5>3. o.rev \in Nat /\ r.rev \in Nat /\ w[2] \in Nat
          BY <5>2 DEF Rule
        <5> QED
          BY <5>1, <5>3
      <4>2. CASE r \in new /\ w \notin written
        <5>1. PICK q \in new : w = <<q.id, q.rev, q.content>>
          BY <2>4, <4>2
        <5>2. q = r
          BY <1>8, <3>4, <4>2, <5>1 DEF Replaces, Distinct
        <5> QED
          BY <2>5, <5>1, <5>2 DEF Rule
      <4>3. CASE r \in rules \ old
        <5>1. w \in written
          BY <2>2, <2>4, <3>4, <4>3
        <5> QED
          BY <3>4, <4>3, <5>1 DEF RuleKeys
      <4> QED
        BY <1>8, <4>1, <4>2, <4>3 DEF Replaces
    <3>5. ASSUME NEW w \in written' PROVE w[1] \in issued'
      BY <1>8, <2>4, <3>5 DEF Replaces, RuleKeys
    <3> QED
      BY <3>1, <3>2, <3>3, <3>4, <3>5 DEF RuleKeys
  <2>7. RevisionNamesContent'
    <3>1. ASSUME NEW q \in new, NEW w \in written, w[1] = q.id, w[2] = q.rev
          PROVE  w = <<q.id, q.rev, q.content>>
      <4>1. PICK o \in old : /\ o.id = q.id /\ w[2] <= o.rev
                             /\ q.rev > o.rev \/ (q.rev = o.rev /\ q.content = o.content)
                             /\ <<o.id, o.rev, o.content>> \in written
        BY <2>3, <3>1
      <4>2. o.rev \in Nat /\ q.rev \in Nat
        BY <1>8, <2>5 DEF Replaces, RulesOf, Rule
      <4>3. o.id = q.id /\ o.rev = q.rev /\ o.content = q.content
        BY <3>1, <4>1, <4>2
      <4> QED
        BY <3>1, <4>1, <4>3 DEF RevisionNamesContent
    <3>2. ASSUME NEW q \in new, NEW r \in new, q.id = r.id PROVE q = r
      BY <1>8, <3>2 DEF Replaces, Distinct
    <3> SUFFICES ASSUME NEW w \in written', NEW x \in written', w[1] = x[1], w[2] = x[2]
                 PROVE  w = x
      BY DEF RevisionNamesContent
    <3>3. CASE w \in written /\ x \in written
      BY <3>3 DEF RevisionNamesContent
    <3>4. CASE w \in written /\ x \notin written
      BY <2>4, <3>1, <3>4
    <3>5. CASE w \notin written /\ x \in written
      BY <2>4, <3>1, <3>5
    <3>6. CASE w \notin written /\ x \notin written
      BY <2>4, <3>2, <3>6
    <3> QED
      BY <3>3, <3>4, <3>5, <3>6
  <2>8. RulesLined'
    <3> SUFFICES ASSUME NEW k \in AccountIds PROVE Lined(RulesOf(k))'
      BY DEF RulesLined
    <3>1. CASE k = req.account
      <4>1. RulesOf(k)' = (RulesOf(k) \ old) \cup new
        BY <1>8, <3>1 DEF Replaces, RulesOf
      <4> QED
        BY <1>8, <3>1, <4>1 DEF Replaces, Lined
    <3>2. CASE k # req.account
      <4>1. RulesOf(k)' = RulesOf(k)
        BY <1>8, <3>2 DEF Replaces, RulesOf
      <4> QED
        BY <4>1 DEF RulesLined, Lined
    <3> QED
      BY <3>1, <3>2
  <2> QED
    BY <2>1, <2>6, <2>7, <2>8
<1>9. CASE CommitFails
  BY <1>9, <1>a DEF CommitFails
<1>10. CASE PublishRules
  BY <1>10, <1>a DEF PublishRules
<1>11. CASE PublishRulesFails
  BY <1>11, <1>a DEF PublishRulesFails
<1>12. CASE RemoveSnapshot
  BY <1>12, <1>a DEF RemoveSnapshot
<1>13. CASE DeleteAccount
  BY <1>13, <1>b DEF DeleteAccount
<1>14. ASSUME NEW a \in accounts, NEW q, Asked(a, q), PauseDelivery(a, q) PROVE Goal'
  BY <1>14, <1>a DEF PauseDelivery
<1>15. ASSUME NEW a \in accounts, PauseFails(a) PROVE Goal'
  BY <1>15, <1>a DEF PauseFails
<1>16. ASSUME NEW a \in accounts, AccountsDeleteImap(a) PROVE Goal'
  BY <1>16, <1>a DEF AccountsDeleteImap
<1>17. CASE DeleteImapFails
  BY <1>17, <1>a DEF DeleteImapFails
<1>18. ASSUME NEW e \in Emails, AddAccount(e) PROVE Goal'
  <2>1. PICK id \in AccountIds \ issued :
          /\ accounts' = accounts \cup {[id |-> id, email |-> e]}
          /\ issued' = issued \cup {id}
    BY <1>18 DEF AddAccount
  <2>2. AccountKeys'
    BY <1>18, <2>1 DEF AddAccount, AccountKeys
  <2>3. RuleKeys'
    BY <1>18, <2>1 DEF AddAccount, RuleKeys, Distinct, Stored
  <2>4. RulesLined' /\ RevisionNamesContent'
    BY <1>18 DEF AddAccount, RulesLined, RulesOf, Lined, RevisionNamesContent
  <2> QED
    BY <2>2, <2>3, <2>4
<1>19. ASSUME NEW e \in Emails, MaddyChanges(e) PROVE Goal'
  BY <1>19, <1>a DEF MaddyChanges
<1>20. ASSUME NEW a \in accounts, AuthPurge(a) PROVE Goal'
  <2>1. accounts' = {b \in accounts : b.id # a.id}
    BY <1>20 DEF AuthPurge, AccountKeys
  <2> QED
    BY <1>20, <2>1, <1>b DEF AuthPurge
<1>21. CASE UNCHANGED vars
  BY <1>21, <1>a DEF vars
<1> QED
  BY <1>1, <1>2, <1>3, <1>4, <1>5, <1>6, <1>7, <1>8, <1>9, <1>10, <1>11,
     <1>12, <1>13, <1>14, <1>15, <1>16, <1>17, <1>18, <1>19, <1>20, <1>21, CommitReplaces, RequestsAsk
  DEF Next, HelperStep

\* Whatever is written, committed or removed, delivery may follow every file.
LEMMA FilesStep ==
    ASSUME MailRulesAssumption, IInv, [Next]_vars
    PROVE  FilesFollow'
<1> USE DEF helper
<1>i. TypeOK /\ FilesFollow
  BY DEF IInv
<1>a. ASSUME UNCHANGED <<accounts, rules, issued, files>> PROVE FilesFollow'
  BY <1>i, <1>a, FilesKept, FollowsKept
<1>b. ASSUME NEW id, accounts' = {a \in accounts : a.id # id}, rules' = rules \ RulesOf(id),
             UNCHANGED <<issued, files>>
      PROVE  FilesFollow'
  BY <1>i, <1>b, FilesKept, FollowsForgotten
<1>c. ASSUME NEW f \in Emails, UNCHANGED <<accounts, rules, issued>>,
             Publish(f, {}) \/ files' = [files EXCEPT ![f] = Missing]
      PROVE  FilesFollow'
  <2>1. Follows(f, {})
    BY DEF Follows, BridgeAccepts
  <2> QED
    BY <1>i, <1>c, <2>1, FilesPublished DEF Publish
<1>d. ASSUME Stored(req.account), pc = "committed", UNCHANGED <<accounts, rules, issued>>,
             Publish(req.email, RulesOf(req.account))
      PROVE  FilesFollow'
  <2>1. PICK a \in accounts : a.id = req.account /\ a.email = req.email /\ req.email \in Emails
    BY <1>d DEF Stored, IInv, TypeOK, RequestFits, Served
  <2>2. PICK rs : rs = RulesOf(a.id)
    OBVIOUS
  <2>3. Follows(req.email, rs)
    BY <2>1, <2>2, FollowsStored
  <2> QED
    BY <1>i, <1>d, <2>1, <2>2, <2>3, FilesPublished DEF Publish
<1>1. CASE StartHelper
  BY <1>1, <1>a DEF StartHelper
<1>2. CASE StopHelper
  BY <1>2, <1>a DEF StopHelper
<1>3. CASE Crash
  BY <1>3, <1>a DEF Crash
<1>4. ASSUME NEW e \in Emails, RemoveOldSnapshot(e) PROVE FilesFollow'
  BY <1>4, <1>c DEF RemoveOldSnapshot
<1>5. ASSUME NEW e \in Emails, PublishPlanned(e) PROVE FilesFollow'
  <2>1. PICK rs : rs = plan[e]
    OBVIOUS
  <2>2. Follows(e, rs)
    BY <1>5, <2>1 DEF PublishPlanned, IInv, PlanFollows
  <2> QED
    BY <1>5, <1>i, <2>1, <2>2, FilesPublished DEF PublishPlanned, Publish
<1>6. CASE OldSnapshotsRemoved
  BY <1>6, <1>a DEF OldSnapshotsRemoved
<1>7. CASE HelperReady
  BY <1>7, <1>a DEF HelperReady
<1>8. ASSUME NEW old, NEW new, Replaces(old, new) PROVE FilesFollow'
  <2>1. Effective(req.email) = {}
    BY <1>8 DEF Replaces, IInv, TypeOK, RequestFits
  <2>2. UNCHANGED files
    BY <1>8 DEF Replaces
  <2>3. \A e \in Emails : \A rs : rs = Effective(e) /\ Follows(e, rs) => Follows(e, rs)'
    BY <1>8, <2>1, FollowsReplaced
  <2> QED
    BY <1>i, <2>2, <2>3, FilesKept
<1>9. CASE CommitFails
  BY <1>9, <1>a DEF CommitFails
<1>10. CASE PublishRules
  BY <1>10, <1>d DEF PublishRules
<1>11. CASE PublishRulesFails
  BY <1>11, <1>a, <1>d DEF PublishRulesFails, PublishFails
<1>12. CASE RemoveSnapshot
  <2>1. req.email \in Emails
    BY <1>12 DEF RemoveSnapshot, IInv, TypeOK, Served
  <2> QED
    BY <1>12, <2>1, <1>c DEF RemoveSnapshot
<1>13. CASE DeleteAccount
  BY <1>13, <1>b DEF DeleteAccount
<1>14. ASSUME NEW a \in accounts, NEW q, Asked(a, q), PauseDelivery(a, q) PROVE FilesFollow'
  BY <1>14, <1>c, <1>i DEF PauseDelivery, TypeOK
<1>15. ASSUME NEW a \in accounts, PauseFails(a) PROVE FilesFollow'
  BY <1>15, <1>a, <1>c, <1>i DEF PauseFails, PublishFails, TypeOK
<1>16. ASSUME NEW a \in accounts, AccountsDeleteImap(a) PROVE FilesFollow'
  BY <1>16, <1>a DEF AccountsDeleteImap
<1>17. CASE DeleteImapFails
  BY <1>17, <1>a DEF DeleteImapFails
<1>18. ASSUME NEW e \in Emails, AddAccount(e) PROVE FilesFollow'
  <2>1. PICK id \in AccountIds \ issued :
          /\ accounts' = accounts \cup {[id |-> id, email |-> e]}
          /\ issued' = issued \cup {id}
    BY <1>18 DEF AddAccount
  <2>2. PICK b : b = [id |-> id, email |-> e]
    OBVIOUS
  <2>3. b.id \notin issued /\ accounts' = accounts \cup {b} /\ UNCHANGED <<rules, files>>
        /\ issued \subseteq issued'
    BY <1>18, <2>1, <2>2 DEF AddAccount
  <2> QED
    BY <1>i, <2>3, FilesKept, FollowsAdded
<1>19. ASSUME NEW e \in Emails, MaddyChanges(e) PROVE FilesFollow'
  BY <1>19, <1>a DEF MaddyChanges
<1>20. ASSUME NEW a \in accounts, AuthPurge(a) PROVE FilesFollow'
  <2>1. accounts' = {b \in accounts : b.id # a.id}
    BY <1>20 DEF AuthPurge, IInv, AccountKeys
  <2> QED
    BY <1>20, <2>1, <1>b DEF AuthPurge
<1>21. CASE UNCHANGED vars
  BY <1>21, <1>a DEF vars
<1> QED
  BY <1>1, <1>2, <1>3, <1>4, <1>5, <1>6, <1>7, <1>8, <1>9, <1>10, <1>11,
     <1>12, <1>13, <1>14, <1>15, <1>16, <1>17, <1>18, <1>19, <1>20, <1>21, CommitReplaces, RequestsAsk
  DEF Next, HelperStep

\* While the helper starts, accounts may come and go beside it; what it still
\* has to publish may be followed all the same.
LEMMA PlanStep ==
    ASSUME MailRulesAssumption, IInv, [Next]_vars
    PROVE  PlanFollows'
<1> USE DEF helper
<1>a. ASSUME pc' \notin {"purging", "publishing"} PROVE PlanFollows'
  BY <1>a DEF PlanFollows
<1>b. ASSUME pc' \in {"purging", "publishing"} => pc \in {"purging", "publishing"},
             DOMAIN plan' \subseteq DOMAIN plan, \A e \in DOMAIN plan' : plan'[e] = plan[e],
             \A e \in DOMAIN plan : \A rs : rs = plan[e] /\ Follows(e, rs) => Follows(e, rs)'
      PROVE  PlanFollows'
  <2> SUFFICES ASSUME pc' \in {"purging", "publishing"}, NEW e \in DOMAIN plan'
               PROVE  Follows(e, plan[e])'
    BY DEF PlanFollows
  <2>1. PICK rs : rs = plan[e]
    OBVIOUS
  <2>2. Follows(e, rs)
    BY <1>b, <2>1 DEF IInv, PlanFollows
  <2>3. Follows(e, rs)'
    BY <1>b, <2>1, <2>2
  <2>4. (plan[e])' = rs
    BY <1>b, <2>1
  <2> QED
    BY <2>3, <2>4 DEF Follows
<1>c. ASSUME UNCHANGED <<accounts, rules, issued, plan, pc>> PROVE PlanFollows'
  BY <1>b, <1>c, FollowsKept
<1>1. CASE StartHelper
  <2> SUFFICES ASSUME NEW e \in DOMAIN plan' PROVE Follows(e, plan[e])'
    BY DEF PlanFollows
  <2>1. PICK a \in accounts : a.email = e
    BY <1>1 DEF StartHelper
  <2>2. PICK rs : rs = RulesOf(a.id)
    OBVIOUS
  <2>3. plan'[e] = rs
    BY <1>1, <2>1, <2>2 DEF StartHelper, RulesOf, IInv, AccountKeys
  <2>4. Follows(e, rs)
    BY <2>1, <2>2, FollowsStored
  <2>5. Follows(e, rs)'
    BY <1>1, <2>4, FollowsKept DEF StartHelper
  <2> QED
    BY <2>3, <2>5 DEF Follows
<1>2. CASE StopHelper
  BY <1>2, <1>a DEF StopHelper
<1>3. CASE Crash
  BY <1>3, <1>a DEF Crash
<1>4. ASSUME NEW e \in Emails, RemoveOldSnapshot(e) PROVE PlanFollows'
  BY <1>4, <1>c DEF RemoveOldSnapshot
<1>5. ASSUME NEW e \in Emails, PublishPlanned(e) PROVE PlanFollows'
  <2>1. \A f, rs : Follows(f, rs) => Follows(f, rs)'
    BY <1>5, FollowsKept DEF PublishPlanned
  <2>2. DOMAIN plan' \subseteq DOMAIN plan /\ \A f \in DOMAIN plan' : plan'[f] = plan[f]
    BY <1>5 DEF PublishPlanned
  <2> QED
    BY <1>5, <2>1, <2>2, <1>b DEF PublishPlanned
<1>6. CASE OldSnapshotsRemoved
  <2>1. \A e, rs : Follows(e, rs) => Follows(e, rs)'
    BY <1>6, FollowsKept DEF OldSnapshotsRemoved
  <2> QED
    BY <1>6, <2>1, <1>b DEF OldSnapshotsRemoved
<1>7. CASE HelperReady
  BY <1>7, <1>a DEF HelperReady
<1>8. ASSUME NEW old, NEW new, Replaces(old, new) PROVE PlanFollows'
  BY <1>8, <1>a DEF Replaces
<1>9. CASE CommitFails
  BY <1>9, <1>a DEF CommitFails
<1>10. CASE PublishRules
  BY <1>10, <1>a DEF PublishRules
<1>11. CASE PublishRulesFails
  BY <1>11, <1>a DEF PublishRulesFails
<1>12. CASE RemoveSnapshot
  BY <1>12, <1>a DEF RemoveSnapshot
<1>13. CASE DeleteAccount
  BY <1>13, <1>a DEF DeleteAccount
<1>14. ASSUME NEW a \in accounts, NEW q, Asked(a, q), PauseDelivery(a, q) PROVE PlanFollows'
  BY <1>14, <1>a DEF PauseDelivery
<1>15. ASSUME NEW a \in accounts, PauseFails(a) PROVE PlanFollows'
  BY <1>15, <1>c DEF PauseFails
<1>16. ASSUME NEW a \in accounts, AccountsDeleteImap(a) PROVE PlanFollows'
  BY <1>16, <1>a DEF AccountsDeleteImap
<1>17. CASE DeleteImapFails
  BY <1>17, <1>a DEF DeleteImapFails
<1>18. ASSUME NEW e \in Emails, AddAccount(e) PROVE PlanFollows'
  <2>1. PICK id \in AccountIds \ issued :
          /\ accounts' = accounts \cup {[id |-> id, email |-> e]}
          /\ issued' = issued \cup {id}
    BY <1>18 DEF AddAccount
  <2>2. PICK b : b = [id |-> id, email |-> e]
    OBVIOUS
  <2>3. b.id \notin issued /\ accounts' = accounts \cup {b} /\ UNCHANGED <<rules, plan, pc>>
        /\ issued \subseteq issued'
    BY <1>18, <2>1, <2>2 DEF AddAccount
  <2>4. \A f, rs : Follows(f, rs) => Follows(f, rs)'
    BY <2>3, FollowsAdded
  <2> QED
    BY <2>3, <2>4, <1>b
<1>19. ASSUME NEW e \in Emails, MaddyChanges(e) PROVE PlanFollows'
  BY <1>19, <1>c DEF MaddyChanges
<1>20. ASSUME NEW a \in accounts, AuthPurge(a) PROVE PlanFollows'
  <2>1. accounts' = {b \in accounts : b.id # a.id}
    BY <1>20 DEF AuthPurge, IInv, AccountKeys
  <2>2. \A f, rs : Follows(f, rs) => Follows(f, rs)'
    BY <1>20, <2>1, FollowsForgotten DEF AuthPurge
  <2> QED
    BY <1>20, <2>2, <1>b DEF AuthPurge
<1>21. CASE UNCHANGED vars
  BY <1>21, <1>c DEF vars
<1> QED
  BY <1>1, <1>2, <1>3, <1>4, <1>5, <1>6, <1>7, <1>8, <1>9, <1>10, <1>11,
     <1>12, <1>13, <1>14, <1>15, <1>16, <1>17, <1>18, <1>19, <1>20, <1>21, CommitReplaces, RequestsAsk
  DEF Next, HelperStep

\* The request that is served keeps its account, and its snapshot stays empty
\* until the rules are published.
LEMMA RequestStep ==
    ASSUME MailRulesAssumption, IInv, [Next]_vars
    PROVE  RequestFits'
<1> USE DEF helper
<1>a. ASSUME req' = None PROVE RequestFits'
  BY <1>a DEF RequestFits
<1>b. ASSUME UNCHANGED req, pc' = pc \/ (pc' = "committed" /\ pc = "paused")
                             \/ pc' \notin {"paused", "committed"},
             files' = files \/ pc' \notin {"paused", "committed"},
             issued \subseteq issued', req # None => req.account \in issued,
             \A a \in accounts' : a \in accounts \/ a.id \notin issued
      PROVE  RequestFits'
  BY <1>b DEF IInv, RequestFits, Effective
<1>i. /\ req = None <=> pc \in {"down", "purging", "publishing", "idle"}
      /\ req # None => req.account \in issued
  BY DEF IInv, TypeOK, RequestFits
<1>1. CASE StartHelper
  BY <1>1, <1>a, <1>i DEF StartHelper
<1>2. CASE StopHelper
  BY <1>2, <1>a, <1>i DEF StopHelper
<1>3. CASE Crash
  BY <1>3, <1>a, <1>i DEF Crash
<1>4. ASSUME NEW e \in Emails, RemoveOldSnapshot(e) PROVE RequestFits'
  BY <1>4, <1>a, <1>i DEF RemoveOldSnapshot
<1>5. ASSUME NEW e \in Emails, PublishPlanned(e) PROVE RequestFits'
  BY <1>5, <1>a, <1>i DEF PublishPlanned
<1>6. CASE OldSnapshotsRemoved
  BY <1>6, <1>a, <1>i DEF OldSnapshotsRemoved
<1>7. CASE HelperReady
  BY <1>7, <1>a, <1>i DEF HelperReady
<1>8. ASSUME NEW old, NEW new, Replaces(old, new) PROVE RequestFits'
  BY <1>8, <1>b, <1>i DEF Replaces
<1>9. CASE CommitFails
  BY <1>9, <1>a, <1>b, <1>i DEF CommitFails
<1>10. CASE PublishRules
  BY <1>10, <1>a, <1>i DEF PublishRules
<1>11. CASE PublishRulesFails
  BY <1>11, <1>a, <1>i DEF PublishRulesFails
<1>12. CASE RemoveSnapshot
  BY <1>12, <1>b, <1>i DEF RemoveSnapshot
<1>13. CASE DeleteAccount
  BY <1>13, <1>a, <1>i DEF DeleteAccount
<1>14. ASSUME NEW a \in accounts, NEW q, Asked(a, q), PauseDelivery(a, q) PROVE RequestFits'
  <2>1. req' = q /\ pc' = "paused" /\ UNCHANGED <<accounts, issued>>
    BY <1>14 DEF PauseDelivery
  <2>2. \A b \in accounts : b.id = a.id => b.email = a.email
    BY DEF IInv, AccountKeys
  <2>3. Effective(req.email)' = {}
    <3>1. files'[a.email] = {} /\ req'.email = a.email
      BY <1>14, <2>1 DEF PauseDelivery, Publish, Asked, IInv, TypeOK
    <3> QED
      BY <3>1 DEF Effective
  <2> QED
    BY <1>14, <2>1, <2>2, <2>3 DEF RequestFits, Asked, IInv, AccountKeys
<1>15. ASSUME NEW a \in accounts, PauseFails(a) PROVE RequestFits'
  BY <1>15, <1>a, <1>i DEF PauseFails
<1>16. ASSUME NEW a \in accounts, AccountsDeleteImap(a) PROVE RequestFits'
  <2>1. req'.kind = "remove" /\ req'.account = a.id /\ req'.email = a.email /\ pc' = "unhosted"
    BY <1>16 DEF AccountsDeleteImap, Request
  <2>2. \A b \in accounts : b.id = a.id => b.email = a.email
    BY DEF IInv, AccountKeys
  <2> QED
    BY <1>16, <2>1, <2>2 DEF AccountsDeleteImap, RequestFits, IInv, AccountKeys
<1>17. CASE DeleteImapFails
  BY <1>17, <1>a, <1>i DEF DeleteImapFails
<1>18. ASSUME NEW e \in Emails, AddAccount(e) PROVE RequestFits'
  <2>1. issued \subseteq issued' /\ \A a \in accounts' : a \in accounts \/ a.id \notin issued
    BY <1>18 DEF AddAccount
  <2> QED
    BY <1>18, <2>1, <1>b, <1>i DEF AddAccount
<1>19. ASSUME NEW e \in Emails, MaddyChanges(e) PROVE RequestFits'
  BY <1>19, <1>b, <1>i DEF MaddyChanges
<1>20. ASSUME NEW a \in accounts, AuthPurge(a) PROVE RequestFits'
  BY <1>20, <1>b, <1>i DEF AuthPurge
<1>21. CASE UNCHANGED vars
  BY <1>21, <1>b, <1>i DEF vars
<1> QED
  BY <1>1, <1>2, <1>3, <1>4, <1>5, <1>6, <1>7, <1>8, <1>9, <1>10, <1>11,
     <1>12, <1>13, <1>14, <1>15, <1>16, <1>17, <1>18, <1>19, <1>20, <1>21, CommitReplaces, RequestsAsk
  DEF Next, HelperStep

\* Every step keeps the inductive invariant.
LEMMA IInvStep == ASSUME MailRulesAssumption, IInv, [Next]_vars PROVE IInv'
  BY TypeStep, KeysStep, FilesStep, PlanStep, RequestStep DEF IInv

\* In every state, whatever writes failed and wherever the helper died, each
\* snapshot with a stored rule is exactly the stored list, the bridge accepts
\* every snapshot, and a revision names one content.
THEOREM SnapshotsAlwaysSound == ASSUME MailRulesAssumption PROVE Spec => []SnapshotsSound
<1>1. Init => IInv
  BY InitIInv
<1>2. IInv /\ [Next]_vars => IInv'
  BY IInvStep
<1>3. IInv => SnapshotsSound
  BY DEF IInv, SnapshotsSound, FilesFollow, Follows, SnapshotsCurrent, SnapshotsAccepted
<1> QED
  BY <1>1, <1>2, <1>3, PTL DEF Spec

----------------------------------------------------------------------------
(* The filter bridge: its inductive invariant. *)

\* Sequences, and two of them behind one another; the lemmas below say of them
\* what the proof needs.
Text(S) == Seq(S)
Cat(s, t) == s \o t
IsPart(t, s, m, n) ==
    m \in Nat /\ m >= 1 /\ n \in Nat /\ n <= Len(s) /\ t = SubSeq(s, m, n)
Splits(s, k, p, q) ==
    /\ k \in Nat /\ k >= 1 /\ k <= Len(s)
    /\ p = SubSeq(s, 1, k) /\ q = SubSeq(s, k + 1, Len(s))

\* The bytes of messages and control lines, and of answers.
Bytes(c) == {Control, NL} \cup UNION {{c.message[d][i] : i \in DOMAIN c.message[d]} : d \in c.deliveries}
Marks(c) == Nat \cup {NL} \cup {c.account[d] : d \in c.deliveries}

\* What the client of a delivery has to send, and the answer to all of it.
Stream(c, d) == Cat(<<Control, NL>>, c.message[d])
Answer(c, d) == Append(Bridge(c)!Target(c.account[d], c.message[d]), NL)

BridgeTypes(c) ==
    /\ client \in [c.deliveries -> {"start", "sending", "waiting", "done"}]
    /\ source \in [c.deliveries -> Text(Bytes(c))]
    /\ transferred \in [c.deliveries -> Nat]
    /\ response \in [c.deliveries -> Text(Marks(c))]
    /\ out \in [c.deliveries -> Text(Marks(c))]
    /\ up \in [c.deliveries -> Text(Bytes(c))] /\ upEnd \in [c.deliveries -> BOOLEAN]
    /\ down \in [c.deliveries -> Text(Marks(c))] /\ downEnd \in [c.deliveries -> BOOLEAN]
    /\ thread \in [c.deliveries -> Bridge(c)!Active \cup {"none", "closed"}]
    /\ control \in [c.deliveries -> Text(Bytes(c))] /\ body \in [c.deliveries -> Text(Bytes(c))]

\* As long as the client goes on, what the thread has read, what is on its way
\* and what is still to be read of the message are the control line and the
\* message; a body that is complete is the message.
Underway(c, d) ==
    client[d] \in {"sending", "waiting"} =>
        /\ thread[d] = "none" => Cat(up[d], source[d]) = Stream(c, d)
        /\ thread[d] = "header" => Cat(control[d], Cat(up[d], source[d])) = Stream(c, d)
        /\ thread[d] = "body" => Cat(body[d], Cat(up[d], source[d])) = c.message[d]
        /\ thread[d] \in {"queued", "evaluating", "respond"} =>
              client[d] = "waiting" /\ body[d] = c.message[d]
        /\ client[d] = "sending" => ~upEnd[d] /\ response[d] = <<>> /\ down[d] = <<>>
        /\ client[d] = "waiting" => source[d] = <<>>

\* What a client that waits was or will be given is a part of its answer, and
\* nothing if the token is wrong or the message too long.
Answering(c, d) ==
    client[d] = "waiting" =>
        \E k \in 0 .. 3 :
            /\ Cat(response[d], down[d]) = SubSeq(Answer(c, d), 1, k)
            /\ k > 0 => d \in c.trusted /\ Len(c.message[d]) <= c.maxMessage

\* Nothing is sent before the client connects, read before the thread starts,
\* or answered before it ends, and only the right token gets past the header.
InTurn(c, d) ==
    /\ client[d] = "start" =>
          source[d] = c.message[d] /\ up[d] = <<>> /\ ~upEnd[d] /\ thread[d] = "none"
    /\ thread[d] = "none" => control[d] = <<>>
    /\ thread[d] # "closed" => down[d] = <<>> /\ response[d] = <<>>
    /\ thread[d] \in {"body", "queued", "evaluating", "respond"} => d \in c.trusted

\* The limits of the protocol, and what Maddy is given.
WithinLimits(c, d) ==
    /\ Len(control[d]) <= c.maxLine + 1 /\ Len(body[d]) <= c.maxMessage
    /\ Len(response[d]) <= c.maxResponse + 1
    /\ out[d] # <<>> => /\ out[d] = Answer(c, d)
                        /\ Len(c.message[d]) <= c.maxMessage /\ d \in c.trusted

DeliverySound(c, d) ==
    Underway(c, d) /\ Answering(c, d) /\ InTurn(c, d) /\ WithinLimits(c, d)

\* Each thread at work has a permit, and who holds the lock evaluates.
Busy(c) == {d \in c.deliveries : thread[d] \in Bridge(c)!Active}
Capacity(c) ==
    /\ IsFiniteSet(Busy(c)) /\ permits \in Nat
    /\ permits = c.connections - Cardinality(Busy(c))
    /\ lock # None => lock \in c.deliveries /\ thread[lock] = "evaluating"

BridgeInv(c) ==
    BridgeTypes(c) /\ Capacity(c) /\ \A d \in c.deliveries : DeliverySound(c, d)

----------------------------------------------------------------------------
(* The setting, and sequences of bytes *)

\* What the assumption says of a setting.
LEMMA SettingIs ==
    ASSUME NEW c \in Settings
    PROVE  /\ c.connections \in Nat \ {0} /\ c.maxLine \in Nat \ {0}
           /\ c.maxMessage \in Nat \ {0} /\ c.maxResponse \in Nat \ {0}
           /\ None \notin c.deliveries /\ Control # NL /\ NL \notin Nat
           /\ \A d \in c.deliveries : c.message[d] \in Text(Bytes(c))
<1>1. Bridge(c)!FilterBounds
  BY FilteringBounds
<1>2. ASSUME NEW d \in c.deliveries PROVE c.message[d] \in Text(Bytes(c))
  <2>1. c.message[d] \in Seq({c.message[d][i] : i \in DOMAIN c.message[d]})
    BY <1>1 DEF Bridge!FilterBounds
  <2>2. {c.message[d][i] : i \in DOMAIN c.message[d]} \subseteq Bytes(c)
    BY DEF Bytes
  <2> QED
    BY <2>1, <2>2, SeqMonotonic DEF Text
<1> QED
  BY <1>1, <1>2 DEF Bridge!FilterBounds

\* Sequences behind one another.
LEMMA TextIs ==
    ASSUME NEW S, NEW s \in Text(S)
    PROVE  /\ s \in Seq(S) /\ Len(s) \in Nat /\ DOMAIN s = 1 .. Len(s)
           /\ \A i \in 1 .. Len(s) : s[i] \in S
           /\ <<>> \in Text(S)
BY LenProperties, ElementOfSeq DEF Text

LEMMA PartIs ==
    ASSUME NEW S, NEW s \in Text(S), NEW m, NEW n, NEW t, IsPart(t, s, m, n)
    PROVE  /\ t \in Text(S) /\ Len(t) = IF m <= n THEN n - m + 1 ELSE 0
           /\ \A i \in 1 .. n - m + 1 : t[i] = s[m + i - 1]
<1>1. m \in Nat /\ m >= 1 /\ n \in Nat /\ n <= Len(s) /\ t = SubSeq(s, m, n)
  BY DEF IsPart
<1>2. \A i \in m .. n : s[i] \in S
  BY <1>1, TextIs
<1> QED
  BY <1>1, <1>2, SubSeqProperties DEF Text

LEMMA BeginningIs ==
    ASSUME NEW S, NEW s \in Text(S), NEW n, NEW t, IsPart(t, s, 1, n)
    PROVE  t \in Text(S) /\ Len(t) = n /\ \A i \in 1 .. n : t[i] = s[i]
<1>1. /\ t \in Text(S) /\ Len(t) = IF 1 <= n THEN n - 1 + 1 ELSE 0
      /\ \A i \in 1 .. n - 1 + 1 : t[i] = s[1 + i - 1]
  BY PartIs
<1>2. n \in Nat /\ n - 1 + 1 = n /\ \A i \in 1 .. n : 1 + i - 1 = i
  BY DEF IsPart
<1> QED
  BY <1>1, <1>2

LEMMA CatIs ==
    ASSUME NEW S, NEW s \in Text(S), NEW t \in Text(S)
    PROVE  Cat(s, t) \in Text(S) /\ Len(Cat(s, t)) = Len(s) + Len(t)
BY ConcatProperties DEF Cat, Text

LEMMA CatEmpty ==
    ASSUME NEW S, NEW s \in Text(S)
    PROVE  Cat(s, <<>>) = s /\ Cat(<<>>, s) = s
BY ConcatEmptySeq DEF Cat, Text

LEMMA CatInAnyOrder ==
    ASSUME NEW S, NEW s \in Text(S), NEW t \in Text(S), NEW u \in Text(S)
    PROVE  Cat(Cat(s, t), u) = Cat(s, Cat(t, u))
BY ConcatAssociative DEF Cat, Text

LEMMA CatCancel ==
    ASSUME NEW S, NEW s \in Text(S), NEW t \in Text(S), NEW u \in Text(S), Cat(s, t) = Cat(s, u)
    PROVE  t = u
BY ConcatSimplifications DEF Cat, Text

\* What is read of a stream and what is left of it are the stream.
LEMMA Taken ==
    ASSUME NEW S, NEW a \in Text(S), NEW b \in Text(S), NEW k, NEW p, NEW q, Splits(b, k, p, q)
    PROVE  /\ p \in Text(S) /\ q \in Text(S) /\ Cat(p, q) = b
           /\ Cat(a, p) \in Text(S) /\ Len(Cat(a, p)) = Len(a) + k
           /\ Cat(Cat(a, p), q) = Cat(a, b)
<1>1. /\ Len(b) \in Nat /\ Len(a) \in Nat /\ k \in Nat /\ k >= 1 /\ k <= Len(b)
      /\ p = SubSeq(b, 1, k) /\ q = SubSeq(b, k + 1, Len(b))
  BY TextIs DEF Splits
<1>2. p \in Text(S) /\ Len(p) = k /\ q \in Text(S)
  <2>1. IsPart(p, b, 1, k) /\ IsPart(q, b, k + 1, Len(b))
    BY <1>1 DEF IsPart
  <2>2. p \in Text(S) /\ Len(p) = k
    BY <2>1, BeginningIs
  <2>3. q \in Text(S)
    BY <2>1, PartIs
  <2> QED
    BY <2>2, <2>3
<1>3. Cat(p, q) = b
  <2>1. b \in Seq(S)
    BY TextIs
  <2>2. p \o q = SubSeq(b, 1, Len(b))
    BY <1>1, <2>1, ConcatAdjacentSubSeq
  <2> QED
    BY <1>1, <2>1, <2>2, SubSeqFull DEF Cat
<1>4. Cat(a, p) \in Text(S) /\ Len(Cat(a, p)) = Len(a) + k
  BY <1>2, CatIs
<1>5. Cat(Cat(a, p), q) = Cat(a, b)
  BY <1>2, <1>3, CatInAnyOrder
<1> QED
  BY <1>2, <1>3, <1>4, <1>5

\* The same with something behind the stream.
LEMMA TakenBefore ==
    ASSUME NEW S, NEW a \in Text(S), NEW b \in Text(S), NEW s \in Text(S),
           NEW k, NEW p, NEW q, Splits(b, k, p, q)
    PROVE  Cat(Cat(a, p), Cat(q, s)) = Cat(a, Cat(b, s))
<1>1. p \in Text(S) /\ q \in Text(S) /\ Cat(p, q) = b /\ Cat(q, s) \in Text(S)
  BY Taken, CatIs
<1>2. Cat(Cat(a, p), Cat(q, s)) = Cat(a, Cat(p, Cat(q, s)))
  BY <1>1, CatInAnyOrder
<1>3. Cat(p, Cat(q, s)) = Cat(b, s)
  BY <1>1, CatInAnyOrder
<1> QED
  BY <1>2, <1>3

\* What was read of a control line and a message, and what is left of them.
AtLine(c, a, b, m, r) ==
    /\ a \in Text(Bytes(c)) /\ b \in Text(Bytes(c)) /\ m \in Text(Bytes(c))
    /\ Cat(a, b) = Cat(<<Control, NL>>, m) /\ Bridge(c)!Newlines(a) # {}
    /\ r = SubSeq(a, 3, Len(a))

\* The control line ends at the newline after Control.
LEMMA AfterLine ==
    ASSUME NEW c \in Settings, NEW a, NEW b, NEW m, NEW r, AtLine(c, a, b, m, r)
    PROVE  Len(a) >= 2 /\ a[1] = Control /\ a[2] = NL /\ r \in Text(Bytes(c)) /\ Cat(r, b) = m
<1>1. PICK S : S = Bytes(c)
  OBVIOUS
<1>0. /\ a \in Text(S) /\ b \in Text(S) /\ m \in Text(S)
      /\ Cat(a, b) = Cat(<<Control, NL>>, m) /\ Bridge(c)!Newlines(a) # {}
      /\ r = SubSeq(a, 3, Len(a))
  BY <1>1 DEF AtLine
<1>2. PICK l : l = <<Control, NL>>
  OBVIOUS
<1>3. l \in Text(S) /\ Len(l) = 2 /\ l[1] = Control /\ l[2] = NL /\ Control # NL
  BY <1>1, <1>2, SettingIs DEF Bytes, Text
<1>4. /\ Len(a) \in Nat /\ Len(b) \in Nat /\ Len(m) \in Nat
      /\ DOMAIN a = 1 .. Len(a)
  BY <1>0, TextIs
<1>5. /\ Len(a) + Len(b) = Len(m) + 2
      /\ \A i \in 1 .. Len(a) : a[i] = IF i <= 2 THEN l[i] ELSE m[i - 2]
  <2>1. a \in Seq(S) /\ b \in Seq(S) /\ m \in Seq(S) /\ l \in Seq(S) /\ a \o b = l \o m
    BY <1>0, <1>2, <1>3, TextIs DEF Cat
  <2>2. PICK w : w = a \o b
    OBVIOUS
  <2>3. /\ Len(w) = Len(a) + Len(b)
        /\ \A i \in 1 .. Len(a) + Len(b) : w[i] = IF i <= Len(a) THEN a[i] ELSE b[i - Len(a)]
    BY <2>1, <2>2, ConcatProperties
  <2>4. /\ Len(w) = Len(l) + Len(m)
        /\ \A i \in 1 .. Len(l) + Len(m) : w[i] = IF i <= Len(l) THEN l[i] ELSE m[i - Len(l)]
    <3>1. w = l \o m
      BY <2>1, <2>2, Zenon
    <3> QED
      BY <2>1, <3>1, ConcatProperties
  <2> QED
    BY <1>3, <1>4, <2>3, <2>4
<1>6. PICK i \in 1 .. Len(a) : a[i] = NL
  BY <1>0, <1>4 DEF Bridge!Newlines
<1>7. Len(a) >= 2 /\ a[1] = Control /\ a[2] = NL
  BY <1>3, <1>4, <1>5, <1>6
<1>8. l = SubSeq(a, 1, 2)
  <2>1. PICK t : t = SubSeq(a, 1, 2)
    OBVIOUS
  <2>2. IsPart(t, a, 1, 2)
    BY <1>4, <1>7, <2>1 DEF IsPart
  <2>3. t \in Text(S) /\ Len(t) = 2 /\ \A j \in 1 .. 2 : t[j] = a[j]
    <3>1. PICK n : n = 2
      OBVIOUS
    <3>2. IsPart(t, a, 1, n)
      BY <2>2, <3>1
    <3>3. t \in Text(S) /\ Len(t) = n /\ \A j \in 1 .. n : t[j] = a[j]
      BY <1>0, <3>2, BeginningIs
    <3> QED
      BY <3>1, <3>3
  <2> QED
    BY <1>3, <1>7, <2>1, <2>3, SeqEqual DEF Text
<1>9. r \in Text(S) /\ Cat(l, r) = a
  <2>1. Splits(a, 2, l, r)
    BY <1>0, <1>4, <1>7, <1>8 DEF Splits
  <2> QED
    BY <1>0, <1>3, <2>1, Taken
<1>10. Cat(l, Cat(r, b)) = Cat(l, m)
  BY <1>0, <1>2, <1>3, <1>9, CatInAnyOrder
<1>11. Cat(r, b) = m
  BY <1>0, <1>3, <1>9, <1>10, CatIs, CatCancel
<1> QED
  BY <1>1, <1>7, <1>9, <1>11

\* Of some positions one is the first.
LEMMA FirstIs ==
    ASSUME NEW I, NEW n \in Nat, I \subseteq 1 .. n, I # {}
    PROVE  \E i \in I : \A j \in I : i <= j
<1>1. I \subseteq Nat
  OBVIOUS
<1>2. \E x \in I : \A y \in I : ~(<<y, x>> \in OpToRel(<, Nat))
  BY <1>1, NatLessThanWellFounded, WFMin, Zenon
<1>3. PICK x \in I : \A y \in I : ~(y < x)
  BY <1>1, <1>2 DEF OpToRel
<1> QED
  BY <1>1, <1>3

\* The first newline of what was read is found.
LEMMA LineEnd ==
    ASSUME NEW c \in Settings, NEW a \in Text(Bytes(c)), Len(a) >= 2, a[1] = Control, a[2] = NL,
           NEW I, I = Bridge(c)!Newlines(a)
    PROVE  (CHOOSE i \in I : \A j \in I : i <= j) = 2
<1>1. DOMAIN a = 1 .. Len(a) /\ Len(a) \in Nat /\ Control # NL
  BY TextIs, SettingIs
<1>2. 2 \in I /\ 1 \notin I /\ \A i \in I : i \in Nat /\ i >= 1
  BY <1>1 DEF Bridge!Newlines
<1>3. \A i \in I : 2 <= i
  BY <1>2
<1>4. \A i \in I : (\A j \in I : i <= j) <=> i = 2
  BY <1>2, <1>3
<1> QED
  BY <1>2, <1>4

\* An answer has three bytes, the last of them its only newline.
LEMMA AnswerIs ==
    ASSUME NEW c \in Settings, NEW d \in c.deliveries, NEW s \in Text(Bytes(c)),
           NEW A, A = Append(Bridge(c)!Target(c.account[d], s), NL)
    PROVE  A \in Text(Marks(c)) /\ Len(A) = 3 /\ A[2] \in Nat /\ A[3] = NL
<1>1. PICK t : t = Bridge(c)!Target(c.account[d], s)
  OBVIOUS
<1>2. t = <<c.account[d], Len(s)>> /\ Len(s) \in Nat
  BY <1>1, TextIs DEF Bridge!Target
<1>3. t \in Text(Marks(c)) /\ Len(t) = 2 /\ t[2] = Len(s)
  BY <1>2 DEF Marks, Text
<1>4. NL \in Marks(c)
  BY DEF Marks
<1> QED
  BY <1>1, <1>2, <1>3, <1>4, AppendProperties DEF Text

\* No part of an answer is taken for one.
LEMMA Validated ==
    ASSUME NEW c \in Settings, NEW d \in c.deliveries, NEW k \in 0 .. 3,
           NEW r, r = SubSeq(Answer(c, d), 1, k)
    PROVE  Bridge(c)!ValidatedResponse(r) \in {<<>>, Answer(c, d)}
<1>1. PICK A : A = Answer(c, d)
  OBVIOUS
<1>2. A \in Text(Marks(c)) /\ Len(A) = 3 /\ A[2] \in Nat /\ NL \notin Nat
  <2>1. c.message[d] \in Text(Bytes(c))
    BY SettingIs
  <2>2. A = Append(Bridge(c)!Target(c.account[d], c.message[d]), NL)
    BY <1>1 DEF Answer
  <2>3. A \in Text(Marks(c)) /\ Len(A) = 3 /\ A[2] \in Nat
    BY <2>1, <2>2, AnswerIs
  <2> QED
    BY <2>3, SettingIs
<1>3. \A j \in 1 .. 3 : A[j] \in Marks(c)
  BY <1>2, TextIs
<1>4. Len(r) = k /\ \A j \in 1 .. k : r[j] = A[j]
  <2>1. PICK S : S = Marks(c)
    OBVIOUS
  <2>2. PICK t, n : IsPart(t, A, 1, n) /\ t = r /\ n = k
    BY <1>1, <1>2 DEF IsPart
  <2>3. A \in Text(S)
    BY <1>2, <2>1
  <2>4. ASSUME NEW x, NEW y, NEW s \in Text(S), IsPart(x, s, 1, y)
        PROVE  Len(x) = y /\ \A j \in 1 .. y : x[j] = s[j]
    BY <2>4, BeginningIs
  <2>5. Len(t) = n /\ \A j \in 1 .. n : t[j] = A[j]
    BY <2>2, <2>3, <2>4, Zenon
  <2> QED
    BY <2>2, <2>5
<1>5. CASE k = 3
  <2>1. r = A
    BY <1>1, <1>2, <1>5, SubSeqFull DEF Text
  <2> QED
    BY <1>1, <2>1 DEF Bridge!ValidatedResponse
<1>6. CASE k = 2
  <2>1. 2 \notin Bridge(c)!Newlines(r)
    BY <1>2, <1>4, <1>6 DEF Bridge!Newlines
  <2> QED
    BY <1>4, <1>6, <2>1 DEF Bridge!ValidatedResponse
<1>7. CASE k \in {0, 1}
  BY <1>4, <1>7 DEF Bridge!ValidatedResponse
<1> QED
  BY <1>5, <1>6, <1>7

\* A read returns at least one byte, and no more than there are or were asked for.
LEMMA PieceIs ==
    ASSUME NEW c \in Settings, NEW S, NEW s \in Text(S), NEW n \in Int,
           NEW k \in Bridge(c)!Pieces(s, n)
    PROVE  k \in 1 .. Len(s) /\ k <= n
BY TextIs DEF Bridge!Pieces

----------------------------------------------------------------------------
(* One step of a delivery *)

\* The other deliveries stay as they are.
OthersRest(c, d) ==
    \A q \in c.deliveries \ {d} :
        /\ client'[q] = client[q] /\ source'[q] = source[q] /\ response'[q] = response[q]
        /\ out'[q] = out[q] /\ up'[q] = up[q] /\ upEnd'[q] = upEnd[q] /\ down'[q] = down[q]
        /\ thread'[q] = thread[q] /\ control'[q] = control[q] /\ body'[q] = body[q]

\* A step concerns the delivery that takes it, and the capacity.
LEMMA OneDelivery ==
    ASSUME NEW c \in Settings, BridgeInv(c), NEW d \in c.deliveries, OthersRest(c, d),
           BridgeTypes(c)', Capacity(c)', DeliverySound(c, d)'
    PROVE  BridgeInv(c)'
<1>1. ASSUME NEW q \in c.deliveries, q # d PROVE DeliverySound(c, q)'
  <2>1. DeliverySound(c, q)
    BY DEF BridgeInv
  <2>2. /\ client'[q] = client[q] /\ source'[q] = source[q] /\ response'[q] = response[q]
        /\ out'[q] = out[q] /\ up'[q] = up[q] /\ upEnd'[q] = upEnd[q] /\ down'[q] = down[q]
        /\ thread'[q] = thread[q] /\ control'[q] = control[q] /\ body'[q] = body[q]
    BY <1>1 DEF OthersRest
  <2>3. Underway(c, q)' /\ InTurn(c, q)' /\ WithinLimits(c, q)'
    BY <2>1, <2>2 DEF DeliverySound, Underway, InTurn, WithinLimits
  <2>4. Answering(c, q)'
    BY <2>1, <2>2 DEF DeliverySound, Answering
  <2> QED
    BY <2>3, <2>4 DEF DeliverySound
<1> QED
  BY <1>1 DEF BridgeInv

\* What the invariant says of one delivery.
LEMMA DeliveryIs ==
    ASSUME NEW c \in Settings, BridgeInv(c), NEW d \in c.deliveries
    PROVE  /\ BridgeTypes(c) /\ Capacity(c)
           /\ Underway(c, d) /\ Answering(c, d) /\ InTurn(c, d) /\ WithinLimits(c, d)
           /\ client[d] \in {"start", "sending", "waiting", "done"}
           /\ thread[d] \in Bridge(c)!Active \cup {"none", "closed"}
           /\ source[d] \in Text(Bytes(c)) /\ up[d] \in Text(Bytes(c))
           /\ control[d] \in Text(Bytes(c)) /\ body[d] \in Text(Bytes(c))
           /\ response[d] \in Text(Marks(c)) /\ down[d] \in Text(Marks(c))
           /\ transferred[d] \in Nat /\ c.message[d] \in Text(Bytes(c))
<1>1. BridgeTypes(c) /\ Capacity(c) /\ DeliverySound(c, d)
  BY DEF BridgeInv
<1> QED
  BY <1>1, SettingIs DEF DeliverySound, BridgeTypes

\* A thread that goes on keeps its permit; the lock is as it was, is given back
\* or goes to a thread that evaluates.
LEMMA PermitKept ==
    ASSUME NEW c \in Settings, BridgeInv(c), NEW d \in c.deliveries,
           \A q \in c.deliveries \ {d} : thread'[q] = thread[q],
           thread'[d] \in Bridge(c)!Active <=> thread[d] \in Bridge(c)!Active,
           permits' = permits,
           \/ lock' = None
           \/ lock' = d /\ thread'[d] = "evaluating"
           \/ lock' = lock /\ (thread[d] # "evaluating" \/ thread'[d] = "evaluating")
    PROVE  Capacity(c)'
<1>1. Capacity(c)
  BY DEF BridgeInv
<1>2. Busy(c)' = Busy(c)
  BY DEF Busy
<1>3. lock' # None => lock' \in c.deliveries /\ thread'[lock'] = "evaluating"
  BY <1>1 DEF Capacity
<1> QED
  BY <1>1, <1>2, <1>3 DEF Capacity

\* A thread that ends gives back its permit and the lock.
LEMMA PermitBack ==
    ASSUME NEW c \in Settings, BridgeInv(c), NEW d \in c.deliveries,
           thread[d] \in Bridge(c)!Active, Bridge(c)!Close(d)
    PROVE  Capacity(c)'
<1>1. Capacity(c) /\ BridgeTypes(c) /\ c.connections \in Nat
  BY SettingIs DEF BridgeInv
<1>2. /\ thread' = [thread EXCEPT ![d] = "closed"] /\ permits' = permits + 1
      /\ lock' = IF lock = d THEN None ELSE lock
  BY DEF Bridge!Close
<1>3. d \in Busy(c)
  BY DEF Busy
<1>4. \A q \in c.deliveries : thread'[q] = IF q = d THEN "closed" ELSE thread[q]
  BY <1>1, <1>2 DEF BridgeTypes
<1>5. Busy(c)' = Busy(c) \ {d}
  BY <1>4 DEF Busy, Bridge!Active
<1>6. /\ IsFiniteSet(Busy(c) \ {d})
      /\ Cardinality(Busy(c) \ {d}) = Cardinality(Busy(c)) - 1
      /\ Cardinality(Busy(c)) \in Nat
  BY <1>1, <1>3, FS_RemoveElement, FS_CardinalityType DEF Capacity
<1>7. permits' \in Nat /\ permits' = c.connections - Cardinality(Busy(c) \ {d})
  BY <1>1, <1>2, <1>6 DEF Capacity
<1>8. lock' # None => lock' \in c.deliveries /\ thread'[lock'] = "evaluating"
  BY <1>1, <1>2, <1>4 DEF Capacity
<1> QED
  BY <1>5, <1>6, <1>7, <1>8 DEF Capacity

----------------------------------------------------------------------------
(* The client *)

LEMMA ConnectStep ==
    ASSUME NEW c \in Settings, BridgeInv(c), NEW d \in c.deliveries, Bridge(c)!Connect(d)
    PROVE  BridgeInv(c)'
<1>1. /\ client[d] = "start" /\ client' = [client EXCEPT ![d] = "sending"]
      /\ up' = [up EXCEPT ![d] = <<Control, NL>>]
      /\ UNCHANGED <<source, transferred, response, out, upEnd, down, downEnd,
                     thread, control, body, permits, lock>>
  BY DEF Bridge!Connect, Bridge!serverVars
<1>2. <<Control, NL>> \in Text(Bytes(c))
  BY DEF Bytes, Text
<1>3. BridgeTypes(c)'
  BY <1>1, <1>2, DeliveryIs DEF BridgeTypes
<1>4. OthersRest(c, d)
  BY <1>1, DeliveryIs DEF BridgeTypes, OthersRest
<1>5. Capacity(c)'
  BY <1>1, PermitKept
<1>6. client'[d] = "sending" /\ up'[d] = <<Control, NL>>
  BY <1>1, DeliveryIs DEF BridgeTypes
<1>7. /\ source[d] = c.message[d] /\ thread[d] = "none" /\ ~upEnd[d]
      /\ down[d] = <<>> /\ response[d] = <<>>
  BY <1>1, DeliveryIs DEF InTurn
<1>8. Underway(c, d)' /\ Answering(c, d)' /\ InTurn(c, d)' /\ WithinLimits(c, d)'
  <2>1. Underway(c, d)'
    BY <1>1, <1>6, <1>7 DEF Underway, Stream
  <2>2. Answering(c, d)'
    BY <1>6 DEF Answering
  <2>3. InTurn(c, d)' /\ WithinLimits(c, d)'
    BY <1>1, <1>6, <1>7, DeliveryIs DEF InTurn, WithinLimits
  <2> QED
    BY <2>1, <2>2, <2>3
<1> QED
  BY <1>3, <1>4, <1>5, <1>8, OneDelivery DEF DeliverySound

LEMMA SendChunkStep ==
    ASSUME NEW c \in Settings, BridgeInv(c), NEW d \in c.deliveries, Bridge(c)!SendChunk(d)
    PROVE  BridgeInv(c)'
<1>1. /\ client[d] = "sending"
      /\ UNCHANGED <<response, out, down, downEnd, thread, control, body, permits, lock>>
  BY DEF Bridge!SendChunk, Bridge!serverVars
<1>2. PICK k \in Bridge(c)!Pieces(source[d], c.maxMessage + 1 - transferred[d]) :
         /\ transferred' = [transferred EXCEPT ![d] = @ + k]
         /\ source' = [source EXCEPT ![d] = Bridge(c)!Rest(@, k)]
         /\ IF transferred[d] + k > c.maxMessage
            THEN /\ client' = [client EXCEPT ![d] = "done"]
                 /\ upEnd' = [upEnd EXCEPT ![d] = TRUE]
                 /\ up' = up
            ELSE /\ up' = [up EXCEPT ![d] = @ \o SubSeq(source[d], 1, k)]
                 /\ UNCHANGED <<client, upEnd>>
  BY DEF Bridge!SendChunk
<1>3. k \in 1 .. Len(source[d])
  <2>1. c.maxMessage + 1 - transferred[d] \in Int
    BY SettingIs, DeliveryIs
  <2> QED
    BY <2>1, DeliveryIs, PieceIs
<1>4. PICK p, r, u : /\ p = SubSeq(source[d], 1, k)
                     /\ r = SubSeq(source[d], k + 1, Len(source[d]))
                     /\ u = Cat(up[d], p)
  OBVIOUS
<1>5. u \in Text(Bytes(c)) /\ r \in Text(Bytes(c)) /\ Cat(u, r) = Cat(up[d], source[d])
  <2>1. Splits(source[d], k, p, r)
    BY <1>3, <1>4 DEF Splits
  <2> QED
    BY <1>4, <2>1, DeliveryIs, Taken
<1>6. transferred' = [transferred EXCEPT ![d] = @ + k] /\ source' = [source EXCEPT ![d] = r]
  BY <1>2, <1>4 DEF Bridge!Rest
<1>7. k \in Nat
  BY <1>3
<1>8. Capacity(c)'
  BY <1>1, PermitKept
<1>9. CASE transferred[d] + k > c.maxMessage
  <2>1. /\ client' = [client EXCEPT ![d] = "done"]
        /\ upEnd' = [upEnd EXCEPT ![d] = TRUE] /\ up' = up
    BY <1>2, <1>9
  <2>2. BridgeTypes(c)'
    BY <1>1, <1>5, <1>6, <1>7, <2>1, DeliveryIs DEF BridgeTypes
  <2>3. OthersRest(c, d)
    BY <1>1, <1>6, <2>1, DeliveryIs DEF BridgeTypes, OthersRest
  <2>4. client'[d] = "done"
    BY <2>1, DeliveryIs DEF BridgeTypes
  <2>5. Underway(c, d)' /\ Answering(c, d)' /\ InTurn(c, d)' /\ WithinLimits(c, d)'
    BY <1>1, <2>4, DeliveryIs DEF Underway, Answering, InTurn, WithinLimits
  <2> QED
    BY <1>8, <2>2, <2>3, <2>5, OneDelivery DEF DeliverySound
<1>10. CASE ~(transferred[d] + k > c.maxMessage)
  <2>1. up' = [up EXCEPT ![d] = u] /\ client' = client /\ upEnd' = upEnd
    BY <1>2, <1>4, <1>10 DEF Cat
  <2>2. BridgeTypes(c)'
    BY <1>1, <1>5, <1>6, <1>7, <2>1, DeliveryIs DEF BridgeTypes
  <2>3. OthersRest(c, d)
    BY <1>1, <1>6, <2>1, DeliveryIs DEF BridgeTypes, OthersRest
  <2>4. Cat(up'[d], source'[d]) = Cat(up[d], source[d])
    BY <1>5, <1>6, <2>1, DeliveryIs DEF BridgeTypes
  <2>5. Underway(c, d)'
    BY <1>1, <2>1, <2>4, DeliveryIs DEF Underway
  <2>6. Answering(c, d)' /\ InTurn(c, d)' /\ WithinLimits(c, d)'
    BY <1>1, <2>1, DeliveryIs DEF Answering, InTurn, WithinLimits
  <2> QED
    BY <1>8, <2>2, <2>3, <2>5, <2>6, OneDelivery DEF DeliverySound
<1> QED
  BY <1>9, <1>10

LEMMA EndOfInputStep ==
    ASSUME NEW c \in Settings, BridgeInv(c), NEW d \in c.deliveries, Bridge(c)!EndOfInput(d)
    PROVE  BridgeInv(c)'
<1>1. /\ client[d] = "sending" /\ source[d] = <<>>
      /\ upEnd' = [upEnd EXCEPT ![d] = TRUE]
      /\ UNCHANGED <<source, transferred, response, out, up, down, downEnd,
                     thread, control, body, permits, lock>>
  BY DEF Bridge!EndOfInput, Bridge!serverVars
<1>2. PICK z \in {"done", "waiting"} : client' = [client EXCEPT ![d] = z]
  BY DEF Bridge!EndOfInput
<1>3. BridgeTypes(c)'
  BY <1>1, <1>2, DeliveryIs DEF BridgeTypes
<1>4. OthersRest(c, d)
  BY <1>1, <1>2, DeliveryIs DEF BridgeTypes, OthersRest
<1>5. Capacity(c)'
  BY <1>1, PermitKept
<1>6. client'[d] \in {"done", "waiting"}
  BY <1>2, DeliveryIs DEF BridgeTypes
<1>7. response[d] = <<>> /\ down[d] = <<>>
  BY <1>1, DeliveryIs DEF Underway
<1>8. Underway(c, d)'
  BY <1>1, <1>6, DeliveryIs DEF Underway
<1>9. Answering(c, d)'
  <2>1. Cat(response[d], down[d]) = SubSeq(Answer(c, d), 1, 0)
    <3>1. Cat(<<>>, <<>>) = <<>>
      BY <1>7, DeliveryIs, CatEmpty
    <3>2. SubSeq(Answer(c, d), 1, 0) = <<>>
      BY SubSeqEmpty
    <3> QED
      BY <1>7, <3>1, <3>2
  <2> QED
    BY <1>1, <2>1 DEF Answering, Answer
<1>10. InTurn(c, d)' /\ WithinLimits(c, d)'
  BY <1>1, <1>6, DeliveryIs DEF InTurn, WithinLimits
<1> QED
  BY <1>3, <1>4, <1>5, <1>8, <1>9, <1>10, OneDelivery DEF DeliverySound

LEMMA ReceiveStep ==
    ASSUME NEW c \in Settings, BridgeInv(c), NEW d \in c.deliveries, Bridge(c)!Receive(d)
    PROVE  BridgeInv(c)'
<1>1. /\ client[d] = "waiting" /\ down[d] # <<>>
      /\ UNCHANGED <<client, source, transferred, out, up, upEnd, downEnd,
                     thread, control, body, permits, lock>>
  BY DEF Bridge!Receive, Bridge!serverVars
<1>2. PICK k \in Bridge(c)!Pieces(down[d], c.maxResponse + 1 - Len(response[d])) :
         /\ response' = [response EXCEPT ![d] = @ \o SubSeq(down[d], 1, k)]
         /\ down' = [down EXCEPT ![d] = Bridge(c)!Rest(@, k)]
  BY DEF Bridge!Receive
<1>3. k \in 1 .. Len(down[d]) /\ k <= c.maxResponse + 1 - Len(response[d])
  <2>1. c.maxResponse + 1 - Len(response[d]) \in Int
    BY SettingIs, DeliveryIs, TextIs
  <2> QED
    BY <2>1, DeliveryIs, PieceIs
<1>4. PICK s, p, r : /\ s = SubSeq(down[d], 1, k)
                     /\ r = SubSeq(down[d], k + 1, Len(down[d]))
                     /\ p = Cat(response[d], s)
  OBVIOUS
<1>5. /\ p \in Text(Marks(c)) /\ r \in Text(Marks(c)) /\ Cat(p, r) = Cat(response[d], down[d])
      /\ Len(p) = Len(response[d]) + k
  <2>1. Splits(down[d], k, s, r)
    BY <1>3, <1>4 DEF Splits
  <2> QED
    BY <1>4, <2>1, DeliveryIs, Taken
<1>6. response' = [response EXCEPT ![d] = p] /\ down' = [down EXCEPT ![d] = r]
  BY <1>2, <1>4 DEF Bridge!Rest, Cat
<1>7. BridgeTypes(c)'
  BY <1>1, <1>5, <1>6, DeliveryIs DEF BridgeTypes
<1>8. OthersRest(c, d)
  BY <1>1, <1>6, DeliveryIs DEF BridgeTypes, OthersRest
<1>9. Capacity(c)'
  BY <1>1, PermitKept
<1>10. response'[d] = p /\ down'[d] = r
  BY <1>6, DeliveryIs DEF BridgeTypes
<1>11. thread[d] = "closed"
  BY <1>1, DeliveryIs DEF InTurn
<1>12. Underway(c, d)'
  BY <1>1, <1>11, DeliveryIs DEF Underway
<1>13. Answering(c, d)'
  <2>1. Cat(response'[d], down'[d]) = Cat(response[d], down[d])
    BY <1>5, <1>10
  <2> QED
    BY <1>1, <2>1, DeliveryIs DEF Answering, Answer
<1>14. InTurn(c, d)'
  BY <1>1, <1>11, DeliveryIs DEF InTurn
<1>15. WithinLimits(c, d)'
  <2>1. Len(p) <= c.maxResponse + 1
    BY <1>3, <1>5, SettingIs, DeliveryIs, TextIs
  <2> QED
    BY <1>1, <1>10, <2>1, DeliveryIs DEF WithinLimits, Answer
<1> QED
  BY <1>7, <1>8, <1>9, <1>12, <1>13, <1>14, <1>15, OneDelivery DEF DeliverySound

LEMMA EndOfResponseStep ==
    ASSUME NEW c \in Settings, BridgeInv(c), NEW d \in c.deliveries, Bridge(c)!EndOfResponse(d)
    PROVE  BridgeInv(c)'
<1>1. /\ client[d] = "waiting"
      /\ down[d] = <<>> \/ Len(response[d]) > c.maxResponse
      /\ client' = [client EXCEPT ![d] = "done"]
      /\ UNCHANGED <<source, transferred, response, up, upEnd, down, downEnd,
                     thread, control, body, permits, lock>>
  BY DEF Bridge!EndOfResponse, Bridge!serverVars, Bridge!streams
<1>2. PICK r : r = Bridge(c)!ValidatedResponse(response[d])
  OBVIOUS
<1>3. out' = [out EXCEPT ![d] = r]
  BY <1>2 DEF Bridge!EndOfResponse
<1>4. r # <<>> => r = Answer(c, d) /\ Len(c.message[d]) <= c.maxMessage /\ d \in c.trusted
  <2>1. CASE Len(response[d]) > c.maxResponse
    <3>1. Len(response[d]) \notin 2 .. c.maxResponse
      BY <2>1, SettingIs, DeliveryIs, TextIs
    <3> QED
      BY <1>2, <3>1 DEF Bridge!ValidatedResponse
  <2>2. CASE down[d] = <<>>
    <3>1. PICK k \in 0 .. 3 :
             /\ Cat(response[d], down[d]) = SubSeq(Answer(c, d), 1, k)
             /\ k > 0 => d \in c.trusted /\ Len(c.message[d]) <= c.maxMessage
      BY <1>1, DeliveryIs DEF Answering, Bridge!EndOfResponse
    <3>2. response[d] = SubSeq(Answer(c, d), 1, k)
      BY <2>2, <3>1, DeliveryIs, CatEmpty
    <3>3. r \in {<<>>, Answer(c, d)}
      BY <1>2, <3>2, Validated
    <3>4. CASE k = 0
      <4>1. response[d] = <<>>
        BY <3>2, <3>4, SubSeqEmpty
      <4> QED
        BY <1>2, <4>1 DEF Bridge!ValidatedResponse
    <3> QED
      BY <3>1, <3>3, <3>4
  <2> QED
    BY <1>1, <2>1, <2>2
<1>5. r \in Text(Marks(c))
  BY <1>2, DeliveryIs, TextIs DEF Bridge!ValidatedResponse
<1>6. BridgeTypes(c)'
  BY <1>1, <1>3, <1>5, DeliveryIs DEF BridgeTypes
<1>7. OthersRest(c, d)
  BY <1>1, <1>3, DeliveryIs DEF BridgeTypes, OthersRest
<1>8. Capacity(c)'
  BY <1>1, PermitKept
<1>9. client'[d] = "done" /\ out'[d] = r
  BY <1>1, <1>3, DeliveryIs DEF BridgeTypes
<1>10. Underway(c, d)' /\ Answering(c, d)' /\ InTurn(c, d)'
  BY <1>1, <1>9, DeliveryIs DEF Underway, Answering, InTurn
<1>11. WithinLimits(c, d)'
  BY <1>1, <1>4, <1>9, DeliveryIs DEF WithinLimits, Answer
<1> QED
  BY <1>6, <1>7, <1>8, <1>10, <1>11, OneDelivery DEF DeliverySound

LEMMA ClientFailsStep ==
    ASSUME NEW c \in Settings, BridgeInv(c), NEW d \in c.deliveries, Bridge(c)!ClientFails(d)
    PROVE  BridgeInv(c)'
<1>1. /\ client' = [client EXCEPT ![d] = "done"] /\ upEnd' = [upEnd EXCEPT ![d] = TRUE]
      /\ UNCHANGED <<source, transferred, response, out, up, down, downEnd,
                     thread, control, body, permits, lock>>
  BY DEF Bridge!ClientFails, Bridge!serverVars
<1>2. BridgeTypes(c)'
  BY <1>1, DeliveryIs DEF BridgeTypes
<1>3. OthersRest(c, d)
  BY <1>1, DeliveryIs DEF BridgeTypes, OthersRest
<1>4. Capacity(c)'
  BY <1>1, PermitKept
<1>5. client'[d] = "done"
  BY <1>1, DeliveryIs DEF BridgeTypes
<1>6. Underway(c, d)' /\ Answering(c, d)' /\ InTurn(c, d)' /\ WithinLimits(c, d)'
  BY <1>1, <1>5, DeliveryIs DEF Underway, Answering, InTurn, WithinLimits
<1> QED
  BY <1>2, <1>3, <1>4, <1>6, OneDelivery DEF DeliverySound

----------------------------------------------------------------------------
(* The server *)

LEMMA AcceptStep ==
    ASSUME NEW c \in Settings, BridgeInv(c), NEW d \in c.deliveries, Bridge(c)!Accept(d)
    PROVE  BridgeInv(c)'
<1>1. /\ thread[d] = "none" /\ client[d] # "start"
      /\ UNCHANGED <<client, source, transferred, response, out, up, upEnd, down,
                     control, body, lock>>
  BY DEF Bridge!Accept, Bridge!Opened, Bridge!clientVars
<1>2. PICK z : /\ z = IF permits > 0 THEN "header" ELSE "closed"
               /\ thread' = [thread EXCEPT ![d] = z]
               /\ permits' = IF permits > 0 THEN permits - 1 ELSE permits
               /\ downEnd' = IF permits > 0 THEN downEnd ELSE [downEnd EXCEPT ![d] = TRUE]
  BY DEF Bridge!Accept
<1>3. z \in {"header", "closed"}
  BY <1>2
<1>4. thread' \in [c.deliveries -> Bridge(c)!Active \cup {"none", "closed"}]
  BY <1>2, <1>3, DeliveryIs DEF BridgeTypes, Bridge!Active
<1>5. downEnd' \in [c.deliveries -> BOOLEAN]
  BY <1>2, DeliveryIs DEF BridgeTypes
<1>6. BridgeTypes(c)'
  BY <1>1, <1>4, <1>5, DeliveryIs DEF BridgeTypes
<1>7. \A q \in c.deliveries : thread'[q] = IF q = d THEN z ELSE thread[q]
  BY <1>2, DeliveryIs DEF BridgeTypes
<1>8. OthersRest(c, d)
  BY <1>1, <1>7 DEF OthersRest
<1>9. Capacity(c)'
  <2>1. Capacity(c) /\ c.connections \in Nat
    BY SettingIs, DeliveryIs
  <2>2. lock' # None => lock' \in c.deliveries /\ thread'[lock'] = "evaluating"
    BY <1>1, <1>7, <2>1 DEF Capacity
  <2>3. d \notin Busy(c)
    BY <1>1 DEF Busy, Bridge!Active
  <2>4. CASE permits > 0
    <3>1. Busy(c)' = Busy(c) \cup {d}
      BY <1>2, <1>7, <2>4 DEF Busy, Bridge!Active
    <3>2. /\ IsFiniteSet(Busy(c) \cup {d})
          /\ Cardinality(Busy(c) \cup {d}) = Cardinality(Busy(c)) + 1
          /\ Cardinality(Busy(c)) \in Nat
      BY <2>1, <2>3, FS_AddElement, FS_CardinalityType DEF Capacity
    <3>3. permits' \in Nat /\ permits' = c.connections - Cardinality(Busy(c) \cup {d})
      BY <1>2, <2>1, <2>4, <3>2 DEF Capacity
    <3> QED
      BY <2>2, <3>1, <3>2, <3>3 DEF Capacity
  <2>5. CASE ~(permits > 0)
    <3>1. Busy(c)' = Busy(c)
      BY <1>1, <1>2, <1>7, <2>5 DEF Busy, Bridge!Active
    <3> QED
      BY <1>2, <2>1, <2>2, <2>5, <3>1 DEF Capacity
  <2> QED
    BY <2>4, <2>5
<1>10. thread'[d] \in {"header", "closed"}
  BY <1>3, <1>7
<1>11. Underway(c, d)'
  <2>1. control[d] = <<>>
    BY <1>1, DeliveryIs DEF InTurn
  <2>2. Cat(up[d], source[d]) \in Text(Bytes(c))
    BY DeliveryIs, CatIs
  <2>3. Cat(control[d], Cat(up[d], source[d])) = Cat(up[d], source[d])
    BY <2>1, <2>2, CatEmpty
  <2> QED
    BY <1>1, <1>10, <2>3, DeliveryIs DEF Underway
<1>12. Answering(c, d)' /\ InTurn(c, d)' /\ WithinLimits(c, d)'
  BY <1>1, <1>10, DeliveryIs DEF Answering, InTurn, WithinLimits
<1> QED
  BY <1>6, <1>8, <1>9, <1>11, <1>12, OneDelivery DEF DeliverySound

\* A thread that ends without an answer, whatever it has read.
LEMMA ThreadEnds ==
    ASSUME NEW c \in Settings, BridgeInv(c), NEW d \in c.deliveries,
           thread[d] \in Bridge(c)!Active, Bridge(c)!Close(d),
           up' = up \/ (\E k : up' = [up EXCEPT ![d] = Bridge(c)!Rest(@, k)]),
           up' \in [c.deliveries -> Text(Bytes(c))],
           UNCHANGED <<client, source, transferred, response, out, upEnd, down, control, body>>
    PROVE  BridgeInv(c)'
<1>1. /\ thread' = [thread EXCEPT ![d] = "closed"] /\ downEnd' = [downEnd EXCEPT ![d] = TRUE]
  BY DEF Bridge!Close
<1>2. BridgeTypes(c)'
  BY <1>1, DeliveryIs DEF BridgeTypes
<1>3. \A q \in c.deliveries \ {d} : up'[q] = up[q] /\ thread'[q] = thread[q]
  BY <1>1, DeliveryIs DEF BridgeTypes
<1>4. OthersRest(c, d)
  BY <1>3 DEF OthersRest
<1>5. Capacity(c)'
  BY PermitBack
<1>6. thread'[d] = "closed" /\ client[d] # "start"
  <2>1. client[d] # "start"
    BY DeliveryIs DEF InTurn, Bridge!Active
  <2> QED
    BY <1>1, <2>1, DeliveryIs DEF BridgeTypes
<1>7. Underway(c, d)'
  BY <1>6, DeliveryIs DEF Underway
<1>8. Answering(c, d)' /\ InTurn(c, d)' /\ WithinLimits(c, d)'
  BY <1>6, DeliveryIs DEF Answering, InTurn, WithinLimits
<1> QED
  BY <1>2, <1>4, <1>5, <1>7, <1>8, OneDelivery DEF DeliverySound

LEMMA ReadControlStep ==
    ASSUME NEW c \in Settings, BridgeInv(c), NEW d \in c.deliveries, Bridge(c)!ReadControl(d)
    PROVE  BridgeInv(c)'
<1>1. /\ thread[d] = "header" /\ Len(control[d]) <= c.maxLine
      /\ UNCHANGED <<client, source, transferred, response, out, upEnd, down, body>>
  BY DEF Bridge!ReadControl, Bridge!ReadsControl, Bridge!clientVars
<1>2. CASE Bridge(c)!Close(d) /\ UNCHANGED <<up, control>>
  <2>1. up' \in [c.deliveries -> Text(Bytes(c))]
    BY <1>2, DeliveryIs DEF BridgeTypes
  <2> QED
    BY <1>1, <1>2, <2>1, ThreadEnds DEF Bridge!Active
<1>3. ASSUME NEW k \in Bridge(c)!Pieces(up[d], c.maxLine + 1 - Len(control[d])),
             control' = [control EXCEPT ![d] = @ \o SubSeq(up[d], 1, k)],
             up' = [up EXCEPT ![d] = Bridge(c)!Rest(@, k)],
             UNCHANGED <<thread, downEnd, permits, lock>>
      PROVE  BridgeInv(c)'
  <2>1. k \in 1 .. Len(up[d]) /\ k <= c.maxLine + 1 - Len(control[d])
    <3>1. c.maxLine + 1 - Len(control[d]) \in Int
      BY SettingIs, DeliveryIs, TextIs
    <3> QED
      BY <3>1, DeliveryIs, PieceIs
  <2>2. PICK s, r, p : /\ s = SubSeq(up[d], 1, k) /\ r = SubSeq(up[d], k + 1, Len(up[d]))
                       /\ p = Cat(control[d], s)
    OBVIOUS
  <2>3. Splits(up[d], k, s, r)
    BY <2>1, <2>2 DEF Splits
  <2>4. p \in Text(Bytes(c)) /\ r \in Text(Bytes(c)) /\ Len(p) = Len(control[d]) + k
    BY <2>2, <2>3, DeliveryIs, Taken
  <2>5. Cat(p, Cat(r, source[d])) = Cat(control[d], Cat(up[d], source[d]))
    BY <2>2, <2>3, DeliveryIs, TakenBefore
  <2>6. control' = [control EXCEPT ![d] = p] /\ up' = [up EXCEPT ![d] = r]
    BY <1>3, <2>2 DEF Bridge!Rest, Cat
  <2>7. BridgeTypes(c)'
    <3>1. control' \in [c.deliveries -> Text(Bytes(c))] /\ up' \in [c.deliveries -> Text(Bytes(c))]
      BY <2>4, <2>6, DeliveryIs DEF BridgeTypes
    <3> QED
      BY <1>1, <1>3, <3>1, DeliveryIs DEF BridgeTypes
  <2>8. OthersRest(c, d)
    BY <1>1, <1>3, <2>6, DeliveryIs DEF BridgeTypes, OthersRest
  <2>9. Capacity(c)'
    BY <1>3, PermitKept
  <2>10. control'[d] = p /\ up'[d] = r
    BY <2>6, DeliveryIs DEF BridgeTypes
  <2>11. Underway(c, d)'
    BY <1>1, <1>3, <2>5, <2>10, DeliveryIs DEF Underway
  <2>12. Answering(c, d)'
    BY <1>1, DeliveryIs DEF Answering
  <2>13. InTurn(c, d)'
    BY <1>1, <1>3, <2>10, DeliveryIs DEF InTurn
  <2>14. WithinLimits(c, d)'
    <3>1. Len(p) <= c.maxLine + 1
      BY <2>1, <2>4, SettingIs, DeliveryIs, TextIs
    <3> QED
      BY <1>1, <2>10, <3>1, DeliveryIs DEF WithinLimits
  <2> QED
    BY <2>7, <2>8, <2>9, <2>11, <2>12, <2>13, <2>14, OneDelivery DEF DeliverySound
<1> QED
  BY <1>2, <1>3 DEF Bridge!ReadControl

LEMMA AuthenticateStep ==
    ASSUME NEW c \in Settings, BridgeInv(c), NEW d \in c.deliveries, Bridge(c)!Authenticate(d)
    PROVE  BridgeInv(c)'
<1>1. /\ thread[d] = "header"
      /\ UNCHANGED <<client, source, transferred, response, out, up, upEnd, down, control>>
  BY DEF Bridge!Authenticate, Bridge!clientVars
<1>2. CASE Bridge(c)!Close(d) /\ body' = body
  <2>1. up' \in [c.deliveries -> Text(Bytes(c))]
    BY <1>1, DeliveryIs DEF BridgeTypes
  <2> QED
    BY <1>1, <1>2, <2>1, ThreadEnds DEF Bridge!Active
<1>3. PICK I, e : I = Bridge(c)!Newlines(control[d]) /\ e = CHOOSE i \in I : \A j \in I : i <= j
  OBVIOUS
<1>4. CASE /\ I # {} /\ d \in c.trusted
           /\ Len(Bridge(c)!InitialBody(d, e - 1)) <= c.maxMessage
           /\ thread' = [thread EXCEPT ![d] = "body"]
           /\ body' = [body EXCEPT ![d] = Bridge(c)!InitialBody(d, e - 1)]
           /\ UNCHANGED <<downEnd, permits, lock>>
  <2>1. PICK r, b : r = SubSeq(control[d], 3, Len(control[d])) /\ b = Bridge(c)!InitialBody(d, e - 1)
    OBVIOUS
  <2>2. control[d] \in Text(Bytes(c)) /\ Len(control[d]) \in Nat
    BY DeliveryIs, TextIs
  <2>3. e \in 1 .. Len(control[d])
    <3>1. I \subseteq 1 .. Len(control[d])
      BY <1>3, <2>2, TextIs DEF Bridge!Newlines
    <3>2. \E i \in I : \A j \in I : i <= j
      BY <1>4, <2>2, <3>1, FirstIs
    <3> QED
      BY <1>3, <3>1, <3>2
  <2>4. b \in Text(Bytes(c)) /\ Len(b) <= c.maxMessage
    <3>1. PICK m, n, y : m = e + 1 /\ n = Len(control[d]) /\ y = control[d]
      OBVIOUS
    <3>2. b = SubSeq(y, m, n)
      BY <2>1, <2>3, <3>1 DEF Bridge!InitialBody, Bridge!Rest
    <3>3. y \in Text(Bytes(c)) /\ IsPart(b, y, m, n)
      BY <2>2, <2>3, <3>1, <3>2 DEF IsPart
    <3>4. b \in Text(Bytes(c))
      BY <3>3, PartIs
    <3> QED
      BY <1>4, <2>1, <3>4
  <2>5. ASSUME client[d] \in {"sending", "waiting"}
        PROVE  Cat(b, Cat(up[d], source[d])) = c.message[d]
    <3>1. PICK a, y, m : a = control[d] /\ y = Cat(up[d], source[d]) /\ m = c.message[d]
      OBVIOUS
    <3>2. Cat(a, y) = Cat(<<Control, NL>>, m)
      BY <1>1, <2>5, <3>1, DeliveryIs DEF Underway, Stream
    <3>3. a \in Text(Bytes(c)) /\ y \in Text(Bytes(c)) /\ m \in Text(Bytes(c))
      BY <3>1, DeliveryIs, CatIs
    <3>4. Bridge(c)!Newlines(a) # {} /\ r = SubSeq(a, 3, Len(a))
      BY <1>3, <1>4, <2>1, <3>1
    <3>5. Len(a) >= 2 /\ a[1] = Control /\ a[2] = NL /\ Cat(r, y) = m
      <4>1. AtLine(c, a, y, m, r)
        BY <3>2, <3>3, <3>4 DEF AtLine
      <4> QED
        BY <4>1, AfterLine
    <3>6. e = 2
      BY <1>3, <3>1, <3>3, <3>5, LineEnd
    <3>7. b = r
      BY <2>1, <3>6 DEF Bridge!InitialBody, Bridge!Rest
    <3> QED
      BY <3>1, <3>5, <3>7
  <2>6. client[d] \in {"sending", "waiting"} => Cat(b, Cat(up[d], source[d])) = c.message[d]
    BY <2>5
  <2>7. body' = [body EXCEPT ![d] = b]
    BY <1>4, <2>1
  <2>8. thread' \in [c.deliveries -> Bridge(c)!Active \cup {"none", "closed"}]
    BY <1>4, DeliveryIs DEF BridgeTypes, Bridge!Active
  <2>9. BridgeTypes(c)'
    BY <1>1, <1>4, <2>4, <2>7, <2>8, DeliveryIs DEF BridgeTypes
  <2>10. OthersRest(c, d)
    BY <1>1, <1>4, <2>7, DeliveryIs DEF BridgeTypes, OthersRest
  <2>11. thread'[d] = "body" /\ body'[d] = b
    BY <1>4, <2>7, DeliveryIs DEF BridgeTypes
  <2>12. Capacity(c)'
    <3>1. \A q \in c.deliveries \ {d} : thread'[q] = thread[q]
      BY <2>10 DEF OthersRest
    <3> QED
      BY <1>1, <1>4, <2>11, <3>1, PermitKept DEF Bridge!Active
  <2>13. Underway(c, d)'
    BY <1>1, <2>6, <2>11, DeliveryIs DEF Underway
  <2>14. Answering(c, d)'
    BY <1>1, DeliveryIs DEF Answering
  <2>15. InTurn(c, d)'
    BY <1>1, <1>4, <2>11, DeliveryIs DEF InTurn
  <2>16. WithinLimits(c, d)'
    BY <1>1, <2>4, <2>11, DeliveryIs DEF WithinLimits
  <2> QED
    BY <2>9, <2>10, <2>12, <2>13, <2>14, <2>15, <2>16, OneDelivery DEF DeliverySound
<1> QED
  BY <1>2, <1>3, <1>4 DEF Bridge!Authenticate

LEMMA ReadBodyStep ==
    ASSUME NEW c \in Settings, BridgeInv(c), NEW d \in c.deliveries, Bridge(c)!ReadBody(d)
    PROVE  BridgeInv(c)'
<1>1. /\ thread[d] = "body"
      /\ UNCHANGED <<client, source, transferred, response, out, upEnd, down, control>>
  BY DEF Bridge!ReadBody, Bridge!clientVars
<1>2. CASE Bridge(c)!Close(d) /\ UNCHANGED <<up, body>>
  <2>1. up' \in [c.deliveries -> Text(Bytes(c))]
    BY <1>2, DeliveryIs DEF BridgeTypes
  <2> QED
    BY <1>1, <1>2, <2>1, ThreadEnds DEF Bridge!Active
<1>3. CASE /\ up[d] = <<>> /\ upEnd[d] /\ thread' = [thread EXCEPT ![d] = "queued"]
           /\ UNCHANGED <<up, body, downEnd, permits, lock>>
  <2>1. thread' \in [c.deliveries -> Bridge(c)!Active \cup {"none", "closed"}]
    BY <1>3, DeliveryIs DEF BridgeTypes, Bridge!Active
  <2>2. BridgeTypes(c)'
    BY <1>1, <1>3, <2>1, DeliveryIs DEF BridgeTypes
  <2>3. OthersRest(c, d)
    BY <1>1, <1>3, DeliveryIs DEF BridgeTypes, OthersRest
  <2>4. thread'[d] = "queued"
    BY <1>3, DeliveryIs DEF BridgeTypes
  <2>5. Capacity(c)'
    <3>1. \A q \in c.deliveries \ {d} : thread'[q] = thread[q]
      BY <2>3 DEF OthersRest
    <3> QED
      BY <1>1, <1>3, <2>4, <3>1, PermitKept DEF Bridge!Active
  <2>6. client[d] \in {"sending", "waiting"} => client[d] = "waiting" /\ body[d] = c.message[d]
    <3>1. ASSUME client[d] = "waiting" PROVE body[d] = c.message[d]
      <4>1. source[d] = <<>> /\ Cat(body[d], Cat(up[d], source[d])) = c.message[d]
        BY <1>1, <3>1, DeliveryIs DEF Underway
      <4>2. Cat(<<>>, <<>>) = <<>> /\ Cat(body[d], <<>>) = body[d]
        BY <1>3, DeliveryIs, CatEmpty
      <4> QED
        BY <1>3, <4>1, <4>2
    <3> QED
      BY <1>3, <3>1, DeliveryIs DEF Underway
  <2>7. Underway(c, d)'
    BY <1>1, <1>3, <2>4, <2>6, DeliveryIs DEF Underway
  <2>8. Answering(c, d)' /\ InTurn(c, d)' /\ WithinLimits(c, d)'
    BY <1>1, <1>3, <2>4, DeliveryIs DEF Answering, InTurn, WithinLimits
  <2> QED
    BY <2>2, <2>3, <2>5, <2>7, <2>8, OneDelivery DEF DeliverySound
<1>4. ASSUME NEW k \in Bridge(c)!Pieces(up[d], c.maxMessage + 1 - Len(body[d])),
             up' = [up EXCEPT ![d] = Bridge(c)!Rest(@, k)],
             IF Len(body[d]) + k > c.maxMessage
             THEN Bridge(c)!Close(d) /\ body' = body
             ELSE /\ body' = [body EXCEPT ![d] = @ \o SubSeq(up[d], 1, k)]
                  /\ UNCHANGED <<thread, downEnd, permits, lock>>
      PROVE  BridgeInv(c)'
  <2>1. k \in 1 .. Len(up[d])
    <3>1. c.maxMessage + 1 - Len(body[d]) \in Int
      BY SettingIs, DeliveryIs, TextIs
    <3> QED
      BY <3>1, DeliveryIs, PieceIs
  <2>2. PICK s, r, p : /\ s = SubSeq(up[d], 1, k) /\ r = SubSeq(up[d], k + 1, Len(up[d]))
                       /\ p = Cat(body[d], s)
    OBVIOUS
  <2>3. Splits(up[d], k, s, r)
    BY <2>1, <2>2 DEF Splits
  <2>4. p \in Text(Bytes(c)) /\ r \in Text(Bytes(c)) /\ Len(p) = Len(body[d]) + k
    BY <2>2, <2>3, DeliveryIs, Taken
  <2>5. Cat(p, Cat(r, source[d])) = Cat(body[d], Cat(up[d], source[d]))
    BY <2>2, <2>3, DeliveryIs, TakenBefore
  <2>6. up' = [up EXCEPT ![d] = r]
    BY <1>4, <2>2 DEF Bridge!Rest
  <2>7. up' \in [c.deliveries -> Text(Bytes(c))] /\ up'[d] = r
    BY <2>4, <2>6, DeliveryIs DEF BridgeTypes
  <2>8. CASE Len(body[d]) + k > c.maxMessage
    <3>1. Bridge(c)!Close(d) /\ body' = body /\ thread[d] \in Bridge(c)!Active
      BY <1>1, <1>4, <2>8 DEF Bridge!Active
    <3> QED
      BY <1>1, <1>4, <2>7, <3>1, ThreadEnds
  <2>9. CASE ~(Len(body[d]) + k > c.maxMessage)
    <3>1. body' = [body EXCEPT ![d] = p] /\ UNCHANGED <<thread, downEnd, permits, lock>>
      BY <1>4, <2>2, <2>9 DEF Cat
    <3>2. body' \in [c.deliveries -> Text(Bytes(c))] /\ body'[d] = p
      BY <2>4, <3>1, DeliveryIs DEF BridgeTypes
    <3>3. BridgeTypes(c)'
      BY <1>1, <2>7, <3>1, <3>2, DeliveryIs DEF BridgeTypes
    <3>4. OthersRest(c, d)
      BY <1>1, <2>6, <3>1, DeliveryIs DEF BridgeTypes, OthersRest
    <3>5. Capacity(c)'
      BY <3>1, PermitKept
    <3>6. Underway(c, d)'
      BY <1>1, <2>5, <2>7, <3>1, <3>2, DeliveryIs DEF Underway
    <3>7. Answering(c, d)'
      BY <1>1, DeliveryIs DEF Answering
    <3>8. InTurn(c, d)'
      BY <1>1, <3>1, DeliveryIs DEF InTurn
    <3>9. WithinLimits(c, d)'
      <4>1. Len(p) <= c.maxMessage
        BY <2>1, <2>4, <2>9, SettingIs, DeliveryIs, TextIs
      <4> QED
        BY <1>1, <3>2, <4>1, DeliveryIs DEF WithinLimits
    <3> QED
      BY <3>3, <3>4, <3>5, <3>6, <3>7, <3>8, <3>9, OneDelivery DEF DeliverySound
  <2> QED
    BY <2>8, <2>9
<1> QED
  BY <1>1, <1>2, <1>3, <1>4 DEF Bridge!ReadBody

\* A complete body waits for the lock, is evaluated and answered.
LEMMA ThreadGoesOn ==
    ASSUME NEW c \in Settings, BridgeInv(c), NEW d \in c.deliveries,
           NEW z, z \in {"evaluating", "respond"},
           thread[d] \in {"queued", "evaluating"}, thread' = [thread EXCEPT ![d] = z],
           \/ z = "evaluating" /\ lock' = d
           \/ lock' = None,
           UNCHANGED <<client, source, transferred, response, out, up, upEnd, down, downEnd,
                       control, body, permits>>
    PROVE  BridgeInv(c)'
<1>1. thread' \in [c.deliveries -> Bridge(c)!Active \cup {"none", "closed"}]
  BY DeliveryIs DEF BridgeTypes, Bridge!Active
<1>2. BridgeTypes(c)'
  BY <1>1, DeliveryIs DEF BridgeTypes
<1>3. \A q \in c.deliveries : thread'[q] = IF q = d THEN z ELSE thread[q]
  BY DeliveryIs DEF BridgeTypes
<1>4. OthersRest(c, d)
  BY <1>3 DEF OthersRest
<1>5. Capacity(c)'
  BY <1>3, PermitKept DEF Bridge!Active
<1>6. thread'[d] = z
  BY <1>3
<1>7. Underway(c, d)'
  BY <1>6, DeliveryIs DEF Underway
<1>8. Answering(c, d)' /\ InTurn(c, d)' /\ WithinLimits(c, d)'
  BY <1>6, DeliveryIs DEF Answering, InTurn, WithinLimits
<1> QED
  BY <1>2, <1>4, <1>5, <1>7, <1>8, OneDelivery DEF DeliverySound

LEMMA TakeLockStep ==
    ASSUME NEW c \in Settings, BridgeInv(c), NEW d \in c.deliveries, Bridge(c)!TakeLock(d)
    PROVE  BridgeInv(c)'
<1>1. /\ thread[d] = "queued" /\ lock' = d /\ thread' = [thread EXCEPT ![d] = "evaluating"]
      /\ UNCHANGED <<client, source, transferred, response, out, up, upEnd, down, downEnd,
                     control, body, permits>>
  BY DEF Bridge!TakeLock, Bridge!clientVars, Bridge!streams
<1> QED
  BY <1>1, ThreadGoesOn

LEMMA EvaluateStep ==
    ASSUME NEW c \in Settings, BridgeInv(c), NEW d \in c.deliveries, Bridge(c)!Evaluate(d)
    PROVE  BridgeInv(c)'
<1>1. /\ thread[d] = "evaluating"
      /\ UNCHANGED <<client, source, transferred, response, out, up, upEnd, down, control, body>>
  BY DEF Bridge!Evaluate, Bridge!clientVars
<1>2. CASE Bridge(c)!Close(d)
  <2>1. up' \in [c.deliveries -> Text(Bytes(c))]
    BY <1>1, DeliveryIs DEF BridgeTypes
  <2> QED
    BY <1>1, <1>2, <2>1, ThreadEnds DEF Bridge!Active
<1>3. CASE /\ thread' = [thread EXCEPT ![d] = "respond"] /\ lock' = None
           /\ UNCHANGED <<downEnd, permits>>
  BY <1>1, <1>3, ThreadGoesOn
<1> QED
  BY <1>2, <1>3 DEF Bridge!Evaluate

LEMMA RespondStep ==
    ASSUME NEW c \in Settings, BridgeInv(c), NEW d \in c.deliveries, Bridge(c)!Respond(d)
    PROVE  BridgeInv(c)'
<1>1. /\ thread[d] = "respond" /\ Bridge(c)!Close(d)
      /\ UNCHANGED <<client, source, transferred, response, out, up, upEnd, control, body>>
  BY DEF Bridge!Respond, Bridge!clientVars
<1>2. PICK A : A = Append(Bridge(c)!Target(c.account[d], body[d]), NL)
  OBVIOUS
<1>3. A \in Text(Marks(c)) /\ Len(A) = 3
  <2>1. PICK y : y = body[d]
    OBVIOUS
  <2>2. y \in Text(Bytes(c)) /\ A = Append(Bridge(c)!Target(c.account[d], y), NL)
    BY <1>2, <2>1, DeliveryIs
  <2> QED
    BY <2>2, AnswerIs
<1>4. PICK k \in 0 .. 3 : down' = [down EXCEPT ![d] = SubSeq(A, 1, k)]
  BY <1>2, <1>3 DEF Bridge!Respond
<1>5. PICK t : t = SubSeq(A, 1, k)
  OBVIOUS
<1>6. t \in Text(Marks(c))
  <2>1. IsPart(t, A, 1, k)
    BY <1>3, <1>5 DEF IsPart
  <2> QED
    BY <1>3, <2>1, PartIs
<1>7. down' \in [c.deliveries -> Text(Marks(c))] /\ down'[d] = t
  BY <1>4, <1>5, <1>6, DeliveryIs DEF BridgeTypes
<1>8. thread' = [thread EXCEPT ![d] = "closed"] /\ downEnd' = [downEnd EXCEPT ![d] = TRUE]
  BY <1>1 DEF Bridge!Close
<1>9. BridgeTypes(c)'
  BY <1>1, <1>7, <1>8, DeliveryIs DEF BridgeTypes
<1>10. OthersRest(c, d)
  BY <1>1, <1>4, <1>8, DeliveryIs DEF BridgeTypes, OthersRest
<1>11. Capacity(c)'
  BY <1>1, PermitBack DEF Bridge!Active
<1>12. thread'[d] = "closed"
  BY <1>8, DeliveryIs DEF BridgeTypes
<1>13. client[d] # "start" /\ response[d] = <<>> /\ d \in c.trusted
  BY <1>1, DeliveryIs DEF InTurn
<1>14. Underway(c, d)'
  BY <1>1, <1>12, DeliveryIs DEF Underway
<1>15. Answering(c, d)'
  <2>1. ASSUME client[d] = "waiting"
        PROVE  /\ Cat(response[d], t) = SubSeq(Answer(c, d), 1, k)
               /\ Len(c.message[d]) <= c.maxMessage
    <3>1. body[d] = c.message[d]
      BY <1>1, <2>1, DeliveryIs DEF Underway
    <3>2. A = Answer(c, d)
      BY <1>2, <3>1 DEF Answer
    <3>3. Cat(<<>>, t) = t
      BY <1>6, CatEmpty
    <3> QED
      BY <1>5, <1>13, <3>1, <3>2, <3>3, DeliveryIs DEF WithinLimits
  <2> QED
    BY <1>1, <1>7, <1>13, <2>1 DEF Answering
<1>16. InTurn(c, d)' /\ WithinLimits(c, d)'
  BY <1>1, <1>12, <1>13, DeliveryIs DEF InTurn, WithinLimits
<1> QED
  BY <1>9, <1>10, <1>11, <1>14, <1>15, <1>16, OneDelivery DEF DeliverySound

LEMMA ThreadFailsStep ==
    ASSUME NEW c \in Settings, BridgeInv(c), NEW d \in c.deliveries, Bridge(c)!ThreadFails(d)
    PROVE  BridgeInv(c)'
<1>1. /\ thread[d] \in Bridge(c)!Active /\ Bridge(c)!Close(d)
      /\ UNCHANGED <<client, source, transferred, response, out, up, upEnd, down, control, body>>
  BY DEF Bridge!ThreadFails, Bridge!clientVars, Bridge!Active
<1>2. up' \in [c.deliveries -> Text(Bytes(c))]
  BY <1>1, DeliveryIs DEF BridgeTypes
<1> QED
  BY <1>1, <1>2, ThreadEnds

----------------------------------------------------------------------------
(* A delivery gets its own whole answer or none. *)

\* The filter stays as it is while the rules move.
LEMMA BridgeRests ==
    ASSUME NEW c \in Settings, BridgeInv(c), UNCHANGED bridgeVars
    PROVE  BridgeInv(c)'
<1>1. UNCHANGED <<client, source, transferred, response, out, up, upEnd, down, downEnd,
                  thread, control, body, permits, lock>>
  BY DEF bridgeVars
<1>2. BridgeTypes(c)' /\ Capacity(c)'
  BY <1>1 DEF BridgeInv, BridgeTypes, Capacity, Busy
<1>3. ASSUME NEW d \in c.deliveries PROVE DeliverySound(c, d)'
  BY <1>1, DeliveryIs DEF DeliverySound, Underway, Answering, InTurn, WithinLimits
<1> QED
  BY <1>2, <1>3 DEF BridgeInv

\* Every step of the filter keeps the invariant.
LEMMA BridgeStep ==
    ASSUME NEW c \in Settings, BridgeInv(c), Bridge(c)!Next
    PROVE  BridgeInv(c)'
<1>1. ASSUME NEW d \in c.deliveries, Bridge(c)!ClientStep(d) \/ Bridge(c)!ClientFails(d)
      PROVE  BridgeInv(c)'
  BY <1>1, ConnectStep, SendChunkStep, EndOfInputStep, ReceiveStep, EndOfResponseStep,
     ClientFailsStep DEF Bridge!ClientStep
<1>2. ASSUME NEW d \in c.deliveries, Bridge(c)!ServerStep(d) \/ Bridge(c)!ThreadFails(d)
      PROVE  BridgeInv(c)'
  BY <1>2, AcceptStep, ReadControlStep, AuthenticateStep, ReadBodyStep, TakeLockStep,
     EvaluateStep, RespondStep, ThreadFailsStep DEF Bridge!ServerStep
<1>3. CASE UNCHANGED Bridge(c)!vars
  BY <1>3, BridgeRests DEF Bridge!vars, bridgeVars
<1> QED
  BY <1>1, <1>2, <1>3 DEF Bridge!Next

\* It holds at the start of every setting.
LEMMA BridgeStart ==
    ASSUME NEW c \in Settings, Bridge(c)!Init
    PROVE  BridgeInv(c)
<1>1. /\ client = [d \in c.deliveries |-> "start"]
      /\ source = [d \in c.deliveries |-> c.message[d]]
      /\ transferred = [d \in c.deliveries |-> 0]
      /\ response = [d \in c.deliveries |-> <<>>] /\ out = [d \in c.deliveries |-> <<>>]
      /\ up = [d \in c.deliveries |-> <<>>] /\ upEnd = [d \in c.deliveries |-> FALSE]
      /\ down = [d \in c.deliveries |-> <<>>] /\ downEnd = [d \in c.deliveries |-> FALSE]
      /\ thread = [d \in c.deliveries |-> "none"]
      /\ control = [d \in c.deliveries |-> <<>>] /\ body = [d \in c.deliveries |-> <<>>]
      /\ permits = c.connections /\ lock = None
  BY DEF Bridge!Init
<1>2. <<>> \in Text(Bytes(c)) /\ <<>> \in Text(Marks(c)) /\ Len(<<>>) = 0
  BY DEF Text
<1>3. \A d \in c.deliveries : c.message[d] \in Text(Bytes(c))
  BY SettingIs
<1>4. BridgeTypes(c)
  BY <1>1, <1>2, <1>3 DEF BridgeTypes
<1>5. Capacity(c)
  <2>1. Busy(c) = {}
    BY <1>1 DEF Busy, Bridge!Active
  <2> QED
    BY <1>1, <2>1, SettingIs, FS_EmptySet DEF Capacity
<1>6. ASSUME NEW d \in c.deliveries PROVE DeliverySound(c, d)
  BY <1>1, <1>2, SettingIs DEF DeliverySound, Underway, Answering, InTurn, WithinLimits
<1> QED
  BY <1>4, <1>5, <1>6 DEF BridgeInv

\* What the invariant says is what the property asks.
LEMMA BridgeSound ==
    ASSUME NEW c \in Settings, BridgeInv(c)
    PROVE  Bridge(c)!FilterSound
<1>1. Capacity(c) /\ c.connections \in Nat
  BY SettingIs DEF BridgeInv
<1>2. Bridge(c)!TypeOK
  <2>1. permits \in 0 .. c.connections
    BY <1>1, FS_CardinalityType DEF Capacity
  <2>2. lock \in c.deliveries \cup {None}
    BY <1>1 DEF Capacity
  <2> QED
    BY <2>1, <2>2, DeliveryIs DEF Bridge!TypeOK, WithinLimits
<1>3. Bridge(c)!OwnWholeAnswer
  BY DeliveryIs DEF Bridge!OwnWholeAnswer, WithinLimits, Answer
<1>4. Bridge(c)!CapacityRestored
  <2>1. ASSUME \A d \in c.deliveries : thread[d] \in {"none", "closed"}
        PROVE  permits = c.connections /\ lock = None
    <3>1. Busy(c) = {}
      BY <2>1 DEF Busy, Bridge!Active
    <3> QED
      BY <1>1, <2>1, <3>1, FS_EmptySet DEF Capacity
  <2> QED
    BY <2>1 DEF Bridge!CapacityRestored
<1> QED
  BY <1>2, <1>3, <1>4 DEF Bridge!FilterSound

\* Whatever is cut, refused, timed out or fails on either side, Maddy is given
\* the whole answer to the whole message of the delivery, or nothing, and the
\* filter bridge gets back every permit and its lock.
THEOREM FilterAlwaysSound == FilteringSpec => []FilterSound
<1>1. FilteringInit => \E c \in Settings : setting = c /\ BridgeInv(c)
  BY BridgeStart DEF FilteringInit, BridgeInit
<1>2. (\E c \in Settings : setting = c /\ BridgeInv(c))
      /\ [FilteringNext]_<<vars, setting, bridgeVars>>
      => (\E c \in Settings : setting = c /\ BridgeInv(c))'
  <2>1. ASSUME NEW c \in Settings, setting = c, BridgeInv(c),
               [FilteringNext]_<<vars, setting, bridgeVars>>
        PROVE  setting' = c /\ BridgeInv(c)'
    BY <2>1, BridgeStep, BridgeRests DEF FilteringNext, BridgeNext
  <2> QED
    BY <2>1
<1>3. (\E c \in Settings : setting = c /\ BridgeInv(c)) => FilterSound
  BY BridgeSound DEF FilterSound
<1> QED
  BY <1>1, <1>2, <1>3, PTL DEF FilteringSpec
=============================================================================
