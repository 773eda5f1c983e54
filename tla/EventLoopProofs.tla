--------------------------- MODULE EventLoopProofs ---------------------------
(***************************************************************************)
(* For any number of rules and descriptors, and whatever the application's *)
(* functions do: wait_next_event() reads each result for the rule it       *)
(* belongs to, and calls back exactly the ready ones.                      *)
(*                                                                         *)
(* The argument follows the two positions.  While the poll is prepared,    *)
(* the results so far stand for the rules so far; while the results are    *)
(* read, the rules from `it' on begin with those of the results from `idx' *)
(* on (Aligned), whatever is added behind them.  So the callback made for  *)
(* the result at `idx' is that of its rule, and the ready results before   *)
(* `idx' have had theirs (Called).                                         *)
(***************************************************************************)
EXTENDS EventLoop, SequenceTheorems, TLAPS

Event == {"event", "hup", "error"}
PollFD == [rule : Rule, events : BOOLEAN, revents : SUBSET Event]

Types ==
    /\ rules \in Seq(Rule) /\ pollfds \in Seq(PollFD)
    /\ it \in Nat \ {0} /\ idx \in Nat \ {0}

Prepared ==
    /\ it = Len(pollfds) + 1 /\ it <= Len(rules) + 1
    /\ \A k \in 1..Len(pollfds) : pollfds[k].rule = rules[k] /\ pollfds[k].revents = {}

Aligned ==
    /\ pc = "idle" => it = 1 /\ pollfds = <<>>
    /\ pc = "setup" => Prepared
    /\ pc = "poll" => Prepared /\ it = Len(rules) + 1
    /\ ResultsBelongToRule

Ready == {k \in 1..Len(pollfds) : "event" \in pollfds[k].revents}

\* The callbacks made so far are those of the ready results before `idx'.
Called ==
    /\ called \subseteq {<<k, pollfds[k].rule>> : k \in Ready}
    /\ pc \in {"idle", "setup", "poll"} => called = {}
    /\ pc = "results" => \A k \in Ready : k < idx => <<k, pollfds[k].rule>> \in called

Inv == Types /\ Aligned /\ Called

-----------------------------------------------------------------------------
\* The list without its element i.
LEMMA Removed ==
    ASSUME NEW S, NEW s \in Seq(S), NEW i \in 1..Len(s)
    PROVE  /\ RemoveAt(s, i) \in Seq(S) /\ Len(RemoveAt(s, i)) = Len(s) - 1
           /\ \A k \in 1..(Len(s) - 1) : RemoveAt(s, i)[k] = IF k < i THEN s[k] ELSE s[k + 1]
<1> DEFINE a == SubSeq(s, 1, i - 1)
           b == SubSeq(s, i + 1, Len(s))
<1>1. Len(s) \in Nat /\ i \in Nat /\ 1 <= i /\ i <= Len(s)
  BY LenProperties
<1>2. \A k \in 1..Len(s) : s[k] \in S
  BY ElementOfSeq
<1>3. a \in Seq(S) /\ Len(a) = i - 1 /\ \A k \in 1..(i - 1) : a[k] = s[k]
  <2>1. /\ SubSeq(s, 1, i - 1) \in Seq(S)
        /\ Len(SubSeq(s, 1, i - 1)) = IF 1 <= i - 1 THEN (i - 1) - 1 + 1 ELSE 0
        /\ \A k \in 1..((i - 1) - 1 + 1) : SubSeq(s, 1, i - 1)[k] = s[1 + k - 1]
    BY <1>1, <1>2, SubSeqProperties
  <2> QED
    BY <1>1, <2>1
<1>4. b \in Seq(S) /\ Len(b) = Len(s) - i /\ \A k \in 1..(Len(s) - i) : b[k] = s[i + k]
  <2>1. /\ SubSeq(s, i + 1, Len(s)) \in Seq(S)
        /\ Len(SubSeq(s, i + 1, Len(s))) = IF i + 1 <= Len(s) THEN Len(s) - (i + 1) + 1 ELSE 0
        /\ \A k \in 1..(Len(s) - (i + 1) + 1) : SubSeq(s, i + 1, Len(s))[k] = s[(i + 1) + k - 1]
    BY <1>1, <1>2, SubSeqProperties
  <2> QED
    BY <1>1, <2>1
<1>5. RemoveAt(s, i) = a \o b
  BY DEF RemoveAt
<1> HIDE DEF a, b
<1>6. /\ a \o b \in Seq(S) /\ Len(a \o b) = Len(a) + Len(b)
      /\ \A k \in 1..(Len(a) + Len(b)) : (a \o b)[k] = IF k <= Len(a) THEN a[k] ELSE b[k - Len(a)]
  BY <1>3, <1>4, ConcatProperties, Zenon
<1> QED
  BY <1>1, <1>3, <1>4, <1>5, <1>6

\* add_rule() puts a rule at the end of the list, or is not called.
LEMMA Added ==
    ASSUME NEW s \in Seq(Rule), no_rule(s) \/ add_rule(s)
    PROVE  /\ rules' \in Seq(Rule)
           /\ Len(s) \in Nat /\ Len(rules') \in {Len(s), Len(s) + 1}
           /\ \A k \in 1..Len(s) : rules'[k] = s[k]
<1>1. Len(s) \in Nat
  BY LenProperties
<1>2. CASE no_rule(s)
  BY <1>1, <1>2 DEF no_rule
<1>3. CASE add_rule(s)
  <2>1. PICK r \in Rule : rules' = Append(s, r)
    BY <1>3 DEF add_rule
  <2> QED
    BY <1>1, <2>1, AppendProperties
<1> QED
  BY <1>2, <1>3

\* Cancelling the rule at `it' moves the later ones forward by one.
LEMMA CancelKeeps ==
    ASSUME Types, it <= Len(rules), Cancel
    PROVE  /\ rules' \in Seq(Rule)
           /\ Len(rules) \in Nat \ {0} /\ Len(rules') \in {Len(rules) - 1, Len(rules)}
           /\ \A k \in 1..(Len(rules) - 1) : rules'[k] = IF k < it THEN rules[k] ELSE rules[k + 1]
<1> DEFINE t == RemoveAt(rules, it)
<1>1. rules \in Seq(Rule) /\ Len(rules) \in Nat \ {0} /\ it \in 1..Len(rules)
  BY LenProperties DEF Types
<1>2. /\ t \in Seq(Rule) /\ Len(t) = Len(rules) - 1
      /\ \A k \in 1..(Len(rules) - 1) : t[k] = IF k < it THEN rules[k] ELSE rules[k + 1]
  BY <1>1, Removed
<1>3. no_rule(t) \/ add_rule(t)
  BY DEF Cancel, AppActs
<1> HIDE DEF t
<1>4. /\ rules' \in Seq(Rule)
      /\ Len(t) \in Nat /\ Len(rules') \in {Len(t), Len(t) + 1}
      /\ \A k \in 1..Len(t) : rules'[k] = t[k]
  BY <1>2, <1>3, Added
<1>5. Len(rules') \in {Len(rules) - 1, Len(rules)}
  BY <1>1, <1>2, <1>4
<1>6. \A k \in 1..(Len(rules) - 1) : rules'[k] = t[k]
  BY <1>2, <1>4
<1> QED
  BY <1>1, <1>2, <1>4, <1>5, <1>6

\* What the vector for poll() holds.
LEMMA PollFDs ==
    ASSUME Types
    PROVE  /\ Len(pollfds) \in Nat /\ DOMAIN pollfds = 1..Len(pollfds)
           /\ \A k \in 1..Len(pollfds) : pollfds[k] \in PollFD
<1>1. Len(pollfds) \in Nat /\ DOMAIN pollfds = 1..Len(pollfds)
  BY LenProperties DEF Types
<1>2. \A k \in 1..Len(pollfds) : pollfds[k] \in PollFD
  BY ElementOfSeq DEF Types
<1> QED
  BY <1>1, <1>2

-----------------------------------------------------------------------------
\* A call returns.
LEMMA ReturnKeeps ==
    ASSUME Inv, NEW res, return(res), no_rule(rules)
    PROVE  Inv'
<1>1. pc' = "idle" /\ it' = 1 /\ idx' = 1 /\ pollfds' = <<>> /\ called' = {} /\ rules' = rules
  BY DEF return, no_rule
<1>2. Types'
  BY <1>1 DEF Inv, Types
<1>3. Aligned'
  BY <1>1 DEF Aligned, ResultsBelongToRule
<1>4. Called'
  BY <1>1 DEF Called
<1> QED
  BY <1>2, <1>3, <1>4 DEF Inv

\* Between two calls nothing is polled.
LEMMA ApplicationKeeps == Inv /\ Application => Inv'
<1> SUFFICES ASSUME Inv, Application PROVE Inv'
  OBVIOUS
<1>1. /\ pc = "idle" /\ pc' = "idle" /\ it' = it /\ idx' = idx /\ pollfds' = pollfds
      /\ called' = called /\ (no_rule(rules) \/ add_rule(rules))
  BY DEF Application, AppActs
<1>2. rules' \in Seq(Rule)
  BY <1>1, Added DEF Inv, Types
<1>3. Types'
  BY <1>1, <1>2 DEF Inv, Types
<1>4. Aligned'
  BY <1>1 DEF Inv, Aligned, ResultsBelongToRule
<1>5. Called'
  BY <1>1 DEF Inv, Called, Ready
<1> QED
  BY <1>3, <1>4, <1>5 DEF Inv

\* A call begins with the first rule.
LEMMA WaitKeeps == Inv /\ Wait => Inv'
<1> SUFFICES ASSUME Inv, Wait PROVE Inv'
  OBVIOUS
<1>1. /\ pc = "idle" /\ pc' = "setup" /\ it' = it /\ idx' = idx /\ pollfds' = pollfds
      /\ called' = called /\ rules' = rules
  BY DEF Wait, no_rule
<1>2. it = 1 /\ pollfds = <<>> /\ Len(rules) \in Nat
  BY <1>1, LenProperties DEF Inv, Aligned, Types
<1>3. Types'
  BY <1>1 DEF Inv, Types
<1>4. Prepared'
  BY <1>1, <1>2 DEF Prepared
<1>5. Aligned'
  BY <1>1, <1>4 DEF Aligned, ResultsBelongToRule
<1>6. Called'
  BY <1>1 DEF Inv, Called, Ready
<1> QED
  BY <1>3, <1>5, <1>6 DEF Inv

\* A rule is cancelled, or polled, while the poll is prepared.
LEMMA SetupRuleKeeps == Inv /\ SetupRule => Inv'
<1> SUFFICES ASSUME Inv, SetupRule PROVE Inv'
  OBVIOUS
<1>1. pc = "setup" /\ pc' = "setup" /\ idx' = idx /\ it <= Len(rules) /\ called' = called
  BY DEF SetupRule
<1>2. Types /\ Prepared /\ called = {}
  BY <1>1 DEF Inv, Aligned, Called
<1>3. /\ rules \in Seq(Rule) /\ Len(rules) \in Nat /\ Len(pollfds) \in Nat
      /\ it = Len(pollfds) + 1 /\ pollfds \in Seq(PollFD)
      /\ \A k \in 1..Len(pollfds) : pollfds[k].rule = rules[k] /\ pollfds[k].revents = {}
  BY <1>2, LenProperties DEF Types, Prepared
<1>4. ResultsBelongToRule'
  BY <1>1 DEF ResultsBelongToRule
<1>5. Called'
  BY <1>1, <1>2 DEF Called
<1>6. CASE drop
  <2>1. it' = it /\ pollfds' = pollfds /\ Cancel
    BY <1>6 DEF drop
  <2>2. /\ rules' \in Seq(Rule)
        /\ Len(rules) \in Nat \ {0} /\ Len(rules') \in {Len(rules) - 1, Len(rules)}
        /\ \A k \in 1..(Len(rules) - 1) : rules'[k] = IF k < it THEN rules[k] ELSE rules[k + 1]
    BY <1>1, <1>2, <2>1, CancelKeeps
  <2>3. Types'
    BY <1>1, <1>2, <2>1, <2>2 DEF Types
  <2>4. Prepared'
    <3>1. it <= Len(rules') + 1
      BY <1>1, <1>3, <2>2
    <3>2. \A k \in 1..Len(pollfds) : k \in 1..(Len(rules) - 1) /\ k < it
      BY <1>1, <1>3
    <3>3. \A k \in 1..Len(pollfds) : rules'[k] = rules[k]
      BY <2>2, <3>2
    <3> QED
      BY <1>3, <2>1, <3>1, <3>3 DEF Prepared
  <2>5. Aligned'
    BY <1>1, <1>4, <2>4 DEF Aligned
  <2> QED
    BY <1>5, <2>3, <2>5 DEF Inv
<1>7. CASE /\ \E interest \in BOOLEAN :
                 pollfds' = Append(pollfds, [rule |-> rules[it], events |-> interest, revents |-> {}])
           /\ it' = it + 1
           /\ no_rule(rules)
  <2>1. PICK interest \in BOOLEAN :
            pollfds' = Append(pollfds, [rule |-> rules[it], events |-> interest, revents |-> {}])
    BY <1>7, Zenon
  <2> DEFINE p == [rule |-> rules[it], events |-> interest, revents |-> {}]
  <2>2. rules[it] \in Rule /\ it \in 1..Len(rules) /\ rules' = rules
    BY <1>1, <1>3, <1>7, ElementOfSeq DEF no_rule
  <2>3. p \in PollFD /\ p.rule = rules[it] /\ p.revents = {}
    BY <2>2 DEF PollFD
  <2> HIDE DEF p
  <2>4. /\ pollfds' \in Seq(PollFD) /\ Len(pollfds') = Len(pollfds) + 1
        /\ \A k \in 1..Len(pollfds) : pollfds'[k] = pollfds[k]
        /\ pollfds'[Len(pollfds) + 1] = p
    BY <1>3, <2>1, <2>3, AppendProperties DEF p
  <2>5. Types'
    BY <1>1, <1>2, <1>7, <2>2, <2>4 DEF Types
  <2>6. Prepared'
    <3>1. \A k \in 1..(Len(pollfds) + 1) : pollfds'[k].rule = rules[k] /\ pollfds'[k].revents = {}
      BY <1>3, <2>3, <2>4
    <3> QED
      BY <1>1, <1>3, <1>7, <2>2, <2>4, <3>1 DEF Prepared
  <2>7. Aligned'
    BY <1>1, <1>4, <2>6 DEF Aligned
  <2> QED
    BY <1>5, <2>5, <2>7 DEF Inv
<1> QED
  BY <1>6, <1>7, Zenon DEF SetupRule

\* Something is to be polled, or the call returns.
LEMMA SetupDoneKeeps == Inv /\ SetupDone => Inv'
<1> SUFFICES ASSUME Inv, SetupDone PROVE Inv'
  OBVIOUS
<1>1. pc = "setup" /\ it > Len(rules) /\ no_rule(rules)
  BY DEF SetupDone
<1>2. CASE return("Exit")
  BY <1>1, <1>2, ReturnKeeps
<1>3. CASE pc' = "poll" /\ UNCHANGED <<it, idx, pollfds, result, called>>
  <2>1. /\ pc' = "poll" /\ it' = it /\ idx' = idx /\ pollfds' = pollfds
        /\ called' = called /\ rules' = rules
    BY <1>1, <1>3 DEF no_rule
  <2>2. Prepared /\ it = Len(rules) + 1
    BY <1>1, LenProperties DEF Inv, Aligned, Prepared, Types
  <2>3. Types'
    BY <2>1 DEF Inv, Types
  <2>4. Aligned'
    BY <2>1, <2>2 DEF Aligned, Prepared, ResultsBelongToRule
  <2>5. Called'
    BY <1>1, <2>1 DEF Inv, Called, Ready
  <2> QED
    BY <2>3, <2>4, <2>5 DEF Inv
<1> QED
  BY <1>2, <1>3 DEF SetupDone

\* poll() has returned, with or without having filled in the results.
LEMMA ResultsBegin ==
    ASSUME Inv, pc = "poll", pc' = "results", it' = 1, idx' = 1, rules' = rules, called' = called,
           pollfds' \in Seq(PollFD), Len(pollfds') = Len(pollfds),
           \A k \in 1..Len(pollfds) : pollfds'[k].rule = pollfds[k].rule
    PROVE  Inv'
<1>1. Types /\ called = {} /\ Prepared /\ it = Len(rules) + 1
  BY DEF Inv, Aligned, Called
<1>2. /\ Len(rules) \in Nat /\ Len(pollfds) = Len(rules)
      /\ \A k \in 1..Len(pollfds) : pollfds[k].rule = rules[k]
  BY <1>1, LenProperties DEF Types, Prepared
<1>3. Types'
  BY <1>1 DEF Types
<1>4. ResultsBelongToRule'
  <2>1. \A k \in 0..(Len(rules) - 1) : 1 + k \in 1..Len(rules)
    BY <1>2
  <2>2. \A k \in 0..(Len(rules) - 1) : pollfds'[1 + k].rule = rules[1 + k]
    BY <1>2, <2>1
  <2> QED
    BY <1>2, <2>2 DEF ResultsBelongToRule
<1>5. Aligned'
  BY <1>4 DEF Aligned
<1>6. Called'
  <2>1. \A k \in Ready' : ~(k < 1)
    BY DEF Ready
  <2> QED
    BY <1>1, <2>1 DEF Called
<1> QED
  BY <1>3, <1>5, <1>6 DEF Inv

\* poll() has reported something.
LEMMA PollReportsKeeps == Inv /\ PollReports => Inv'
<1> SUFFICES ASSUME Inv, PollReports PROVE Inv'
  OBVIOUS
<1>1. PICK revents \in [DOMAIN pollfds -> SUBSET Event] :
          pollfds' = [k \in DOMAIN pollfds |-> [pollfds[k] EXCEPT !.revents = revents[k]]]
  BY Zenon DEF PollReports, Event
<1>2. /\ pc = "poll" /\ pc' = "results" /\ it' = 1 /\ idx' = 1
      /\ rules' = rules /\ called' = called
  BY DEF PollReports, no_rule
<1>3. /\ DOMAIN pollfds = 1..Len(pollfds) /\ Len(pollfds) \in Nat
      /\ \A k \in 1..Len(pollfds) : pollfds[k] \in PollFD
  BY PollFDs DEF Inv
<1>4. \A k \in 1..Len(pollfds) : pollfds'[k] \in PollFD /\ pollfds'[k].rule = pollfds[k].rule
  BY <1>1, <1>3 DEF PollFD
<1>5. DOMAIN pollfds' = 1..Len(pollfds) /\ pollfds' = [k \in 1..Len(pollfds) |-> pollfds'[k]]
  BY <1>1, <1>3
<1>6. pollfds' \in Seq(PollFD)
  BY <1>3, <1>4, <1>5, SeqDef
<1>7. Len(pollfds') = Len(pollfds)
  BY <1>3, <1>5, <1>6, LenProperties
<1> QED
  BY <1>2, <1>4, <1>6, <1>7, ResultsBegin

\* poll() has failed, and nothing was filled in.
LEMMA PollFailsKeeps == Inv /\ PollFails => Inv'
<1> SUFFICES ASSUME Inv, PollFails PROVE Inv'
  OBVIOUS
<1>1. /\ pc = "poll" /\ pc' = "results" /\ it' = 1 /\ idx' = 1 /\ pollfds' = pollfds
      /\ rules' = rules /\ called' = called
  BY DEF PollFails, no_rule
<1>2. pollfds' \in Seq(PollFD)
  BY <1>1 DEF Inv, Types
<1> QED
  BY <1>1, <1>2, ResultsBegin

-----------------------------------------------------------------------------
\* The rule at `it' and the result at `idx' belong together.
LEMMA Current ==
    ASSUME Inv, pc = "results", it <= Len(rules), idx <= Len(pollfds)
    PROVE  pollfds[idx].rule = rules[it]
<1>1. it \in Nat \ {0} /\ idx \in Nat \ {0} /\ Len(rules) \in Nat /\ Len(pollfds) \in Nat
  BY LenProperties DEF Inv, Types
<1>2. 0 \in 0..(Len(pollfds) - idx) /\ idx + 0 = idx /\ it + 0 = it
  BY <1>1
<1>3. pollfds[idx + 0].rule = rules[it + 0]
  BY <1>2 DEF Inv, Aligned, ResultsBelongToRule
<1> QED
  BY <1>2, <1>3

\* Both positions move past a rule and its result; a rule may be added behind
\* the others.
LEMMA BothMoveOn ==
    ASSUME Inv, pc = "results", pc' = "results", it <= Len(rules),
           next_rule, no_rule(rules) \/ add_rule(rules), pollfds' = pollfds
    PROVE  Types' /\ Aligned'
<1>1. /\ Types /\ it' = it + 1 /\ pollfds' = pollfds
      /\ idx' = IF idx <= Len(pollfds) THEN idx + 1 ELSE idx
  BY DEF Inv, next_rule, next_result
<1>2. it \in Nat \ {0} /\ idx \in Nat \ {0} /\ Len(pollfds) \in Nat
  BY <1>1, PollFDs DEF Types
<1>3. /\ rules' \in Seq(Rule)
      /\ Len(rules) \in Nat /\ Len(rules') \in {Len(rules), Len(rules) + 1}
      /\ \A k \in 1..Len(rules) : rules'[k] = rules[k]
  BY <1>1, Added DEF Types
<1>4. Types'
  <2>1. it' \in Nat \ {0} /\ idx' \in Nat \ {0}
    BY <1>1, <1>2
  <2> QED
    BY <1>1, <1>3, <2>1, Zenon DEF Types
<1>5. /\ Len(rules) - it >= Len(pollfds) - idx
      /\ \A k \in 0..(Len(pollfds) - idx) : pollfds[idx + k].rule = rules[it + k]
  BY DEF Inv, Aligned, ResultsBelongToRule
<1>6. ResultsBelongToRule'
  <2>1. Len(rules') - it' >= Len(pollfds) - idx'
    BY <1>1, <1>2, <1>3, <1>5
  <2>2. ASSUME NEW k \in 0..(Len(pollfds) - idx')
        PROVE  pollfds[idx' + k].rule = rules'[it' + k]
    <3>1. idx' = idx + 1
      BY <1>1, <1>2, <2>2
    <3>2. /\ k + 1 \in 0..(Len(pollfds) - idx) /\ idx' + k = idx + (k + 1)
          /\ it' + k = it + (k + 1) /\ it + (k + 1) \in 1..Len(rules)
      BY <1>1, <1>2, <1>3, <1>5, <3>1
    <3>3. pollfds[idx + (k + 1)].rule = rules[it + (k + 1)]
      BY <1>5, <3>2
    <3> QED
      BY <1>3, <3>2, <3>3
  <2> QED
    BY <1>1, <2>1, <2>2 DEF ResultsBelongToRule
<1>7. Aligned'
  BY <1>6 DEF Aligned
<1> QED
  BY <1>4, <1>7

\* A rule is erased and its result is skipped.
LEMMA HangupKeeps ==
    ASSUME Inv, pc = "results", pc' = "results", it <= Len(rules), hangup, pollfds' = pollfds
    PROVE  Types' /\ Aligned'
<1>1. /\ Types /\ it' = it /\ pollfds' = pollfds /\ Cancel
      /\ idx' = IF idx <= Len(pollfds) THEN idx + 1 ELSE idx
  BY DEF Inv, hangup, next_result
<1>2. it \in Nat \ {0} /\ idx \in Nat \ {0} /\ Len(pollfds) \in Nat
  BY <1>1, PollFDs DEF Types
<1>3. /\ rules' \in Seq(Rule)
      /\ Len(rules) \in Nat \ {0} /\ Len(rules') \in {Len(rules) - 1, Len(rules)}
      /\ \A k \in 1..(Len(rules) - 1) : rules'[k] = IF k < it THEN rules[k] ELSE rules[k + 1]
  BY <1>1, CancelKeeps, Zenon
<1>4. Types'
  <2>1. idx' \in Nat \ {0}
    BY <1>1, <1>2
  <2> QED
    BY <1>1, <1>3, <2>1, Zenon DEF Types
<1>5. /\ Len(rules) - it >= Len(pollfds) - idx
      /\ \A k \in 0..(Len(pollfds) - idx) : pollfds[idx + k].rule = rules[it + k]
  BY DEF Inv, Aligned, ResultsBelongToRule
<1>6. \A k \in 1..(Len(rules) - 1) : k >= it => rules'[k] = rules[k + 1]
  <2>1. \A k \in 1..(Len(rules) - 1) : k >= it => ~(k < it)
    BY <1>2
  <2> QED
    BY <1>3, <2>1, Zenon
<1>7. ResultsBelongToRule'
  <2>1. Len(rules') \in {Len(rules) - 1, Len(rules)}
    BY <1>3, Zenon
  <2>2. Len(rules') - it' >= Len(pollfds) - idx'
    BY <1>1, <1>2, <1>3, <1>5, <2>1
  <2>3. ASSUME NEW k \in 0..(Len(pollfds) - idx')
        PROVE  pollfds[idx' + k].rule = rules'[it' + k]
    <3>1. idx' = idx + 1
      BY <1>1, <1>2, <2>3
    <3>2. /\ k + 1 \in 0..(Len(pollfds) - idx) /\ idx' + k = idx + (k + 1)
          /\ it' + k = it + k /\ (it + k) + 1 = it + (k + 1)
          /\ it + k \in 1..(Len(rules) - 1) /\ it + k >= it
      BY <1>1, <1>2, <1>3, <1>5, <3>1
    <3>3. pollfds[idx + (k + 1)].rule = rules[it + (k + 1)]
      BY <1>5, <3>2
    <3> QED
      BY <1>6, <3>2, <3>3, Zenon
  <2> QED
    BY <1>1, <2>2, <2>3 DEF ResultsBelongToRule
<1>8. Aligned'
  BY <1>7 DEF Aligned
<1> QED
  BY <1>4, <1>8

\* What has been called back, and what is still to come, when the result at
\* `idx' is left behind.
LEMMA CalledKeeps ==
    ASSUME Inv, pc = "results", pc' \in {"results", "threw"}, it <= Len(rules),
           NEW p \in result_at(idx), pollfds' = pollfds,
           pc' = "results" => next_result,
           \/ called' = called /\ (pc' = "results" => "event" \notin p.revents)
           \/ /\ called' = IF idx <= Len(pollfds) THEN called \cup {<<idx, rules[it]>>} ELSE called
              /\ "event" \in p.revents
    PROVE  Called'
<1>1. Types /\ Called /\ Ready' = Ready
  BY DEF Inv, Ready
<1>2. idx \in Nat \ {0} /\ Len(pollfds) \in Nat /\ \A k \in Ready : k \in 1..Len(pollfds)
  BY <1>1, PollFDs DEF Types, Ready
<1>3. CASE idx <= Len(pollfds)
  <2> DEFINE now == <<idx, pollfds[idx].rule>>
  <2>r. pollfds[idx].rule = rules[it]
    BY <1>3, Current
  <2>p. p = pollfds[idx]
    BY <1>3 DEF result_at
  <2>c. \/ called' = called /\ (pc' = "results" => "event" \notin p.revents)
        \/ called' = called \cup {now} /\ "event" \in p.revents
    BY <1>3, <2>r
  <2>1. /\ pollfds[idx].rule = rules[it] /\ p = pollfds[idx]
        /\ \/ called' = called /\ (pc' = "results" => "event" \notin p.revents)
           \/ called' = called \cup {now} /\ "event" \in p.revents
    BY <2>r, <2>p, <2>c
  <2>2. "event" \in p.revents <=> idx \in Ready
    BY <1>2, <1>3, <2>1 DEF Ready
  <2>3. called \subseteq {<<k, pollfds[k].rule>> : k \in Ready}
    BY <1>1 DEF Called
  <2>4. idx \in Ready => now \in {<<k, pollfds[k].rule>> : k \in Ready}
    OBVIOUS
  <2>5. idx \in Ready /\ pc' = "results" => now \in called'
    BY <2>1, <2>2
  <2>6. called \subseteq called'
    BY <2>1
  <2> HIDE DEF now
  <2>7. called' \subseteq {<<k, pollfds[k].rule>> : k \in Ready}
    BY <2>1, <2>2, <2>3, <2>4
  <2>8. ASSUME pc' = "results", NEW k \in Ready, k < idx'
        PROVE  <<k, pollfds[k].rule>> \in called'
    <3>1. k < idx \/ k = idx
      BY <1>2, <1>3, <2>8 DEF next_result
    <3>2. CASE k < idx
      <4>1. <<k, pollfds[k].rule>> \in called
        BY <1>1, <3>2 DEF Called
      <4> QED
        BY <2>6, <4>1
    <3>3. CASE k = idx
      BY <2>5, <2>8, <3>3 DEF now
    <3> QED
      BY <3>1, <3>2, <3>3
  <2> QED
    BY <1>1, <2>7, <2>8 DEF Called
<1>4. CASE ~(idx <= Len(pollfds))
  <2>1. called' = called
    BY <1>4
  <2>2. pc' = "results" => idx' = idx
    BY <1>4 DEF next_result
  <2> QED
    BY <1>1, <2>1, <2>2 DEF Called
<1> QED
  BY <1>3, <1>4

\* After an exception only the list of rules matters.
LEMMA ThrowKeeps ==
    ASSUME Inv, pc' = "threw", rules' \in Seq(Rule), it' = it, idx' = idx, pollfds' = pollfds, Called'
    PROVE  Inv'
<1>1. Types'
  BY DEF Inv, Types
<1>2. Aligned'
  BY DEF Aligned, ResultsBelongToRule
<1> QED
  BY <1>1, <1>2 DEF Inv

\* One result is read.
LEMMA ResultStepKeeps == Inv /\ ResultStep => Inv'
<1> SUFFICES ASSUME Inv, ResultStep PROVE Inv'
  OBVIOUS
<1>1. pc = "results" /\ it <= Len(rules) /\ pollfds' = pollfds
  BY DEF ResultStep
<1>2. PICK p \in result_at(idx) :
          \/ "error" \in p.revents /\ throw /\ no_rule(rules) /\ UNCHANGED <<it, idx, appVars, called>>
          \/ only_hung_up(p) /\ hangup /\ UNCHANGED <<pc, called>>
          \/ "event" \in p.revents /\ Callback(rules[it])
          \/ "event" \notin p.revents /\ next_rule /\ no_rule(rules) /\ UNCHANGED <<pc, appVars, called>>
  BY DEF ResultStep
<1>3. rules \in Seq(Rule)
  BY DEF Inv, Types
<1>4. CASE "error" \in p.revents /\ throw /\ no_rule(rules) /\ UNCHANGED <<it, idx, appVars, called>>
  <2>1. pc' = "threw" /\ rules' = rules /\ it' = it /\ idx' = idx /\ called' = called
    BY <1>4 DEF throw, no_rule
  <2>2. Called'
    BY <1>1, <2>1, CalledKeeps
  <2> QED
    BY <1>1, <1>3, <2>1, <2>2, ThrowKeeps
<1>5. CASE only_hung_up(p) /\ hangup /\ UNCHANGED <<pc, called>>
  <2>1. "event" \notin p.revents /\ next_result /\ pc' = "results" /\ called' = called
    BY <1>1, <1>5 DEF only_hung_up, hangup
  <2>2. Called'
    BY <1>1, <2>1, CalledKeeps
  <2>3. Types' /\ Aligned'
    BY <1>1, <1>5, <2>1, HangupKeeps
  <2> QED
    BY <2>2, <2>3 DEF Inv
<1>6. CASE "event" \in p.revents /\ Callback(rules[it])
  <2>1. /\ called' = IF idx <= Len(pollfds) THEN called \cup {<<idx, rules[it]>>} ELSE called
        /\ no_rule(rules) \/ add_rule(rules)
        /\ \/ throw /\ UNCHANGED <<it, idx>>
           \/ next_rule /\ UNCHANGED pc
    BY <1>6 DEF Callback, AppActs
  <2>2. CASE throw /\ UNCHANGED <<it, idx>>
    <3>1. pc' = "threw" /\ it' = it /\ idx' = idx
      BY <2>2 DEF throw
    <3>2. Called'
      BY <1>1, <1>6, <2>1, <3>1, CalledKeeps
    <3>3. rules' \in Seq(Rule)
      BY <1>3, <2>1, Added
    <3> QED
      BY <1>1, <3>1, <3>2, <3>3, ThrowKeeps
  <2>3. CASE next_rule /\ UNCHANGED pc
    <3>1. pc' = "results" /\ next_result
      BY <1>1, <2>3 DEF next_rule
    <3>2. Called'
      BY <1>1, <1>6, <2>1, <3>1, CalledKeeps
    <3>3. Types' /\ Aligned'
      BY <1>1, <2>1, <2>3, <3>1, BothMoveOn
    <3> QED
      BY <3>2, <3>3 DEF Inv
  <2> QED
    BY <2>1, <2>2, <2>3
<1>7. CASE "event" \notin p.revents /\ next_rule /\ no_rule(rules) /\ UNCHANGED <<pc, appVars, called>>
  <2>1. pc' = "results" /\ next_result /\ called' = called
    BY <1>1, <1>7 DEF next_rule
  <2>2. Called'
    BY <1>1, <1>7, <2>1, CalledKeeps
  <2>3. Types' /\ Aligned'
    BY <1>1, <1>7, <2>1, BothMoveOn
  <2> QED
    BY <2>2, <2>3 DEF Inv
<1> QED
  BY <1>2, <1>4, <1>5, <1>6, <1>7

-----------------------------------------------------------------------------
\* At first there is no rule, and no call.
LEMMA InitInv == Init => Inv
<1> SUFFICES ASSUME Init PROVE Inv
  OBVIOUS
<1>1. Types
  BY DEF Init, Types
<1>2. Aligned
  BY DEF Init, Aligned, ResultsBelongToRule
<1>3. Called
  BY DEF Init, Called
<1> QED
  BY <1>1, <1>2, <1>3 DEF Inv

\* Every step keeps the invariant.
LEMMA NextInv == Inv /\ [Next]_vars => Inv'
<1> SUFFICES ASSUME Inv, [Next]_vars PROVE Inv'
  OBVIOUS
<1>1. CASE Application
  BY <1>1, ApplicationKeeps
<1>2. CASE Wait
  BY <1>2, WaitKeeps
<1>3. CASE SetupRule
  BY <1>3, SetupRuleKeeps
<1>4. CASE SetupDone
  BY <1>4, SetupDoneKeeps
<1>5. CASE PollReports
  BY <1>5, PollReportsKeeps
<1>6. CASE PollTimesOut
  BY <1>6, ReturnKeeps DEF PollTimesOut
<1>7. CASE PollInterrupted
  BY <1>7, ReturnKeeps DEF PollInterrupted
<1>8. CASE PollFails
  BY <1>8, PollFailsKeeps
<1>9. CASE ResultStep
  BY <1>9, ResultStepKeeps
<1>10. CASE ResultsDone
  BY <1>10, ReturnKeeps DEF ResultsDone
<1>11. CASE UNCHANGED vars
  <2>1. /\ rules' = rules /\ pc' = pc /\ it' = it /\ idx' = idx /\ pollfds' = pollfds
        /\ called' = called
    BY <1>11 DEF vars, loopVars
  <2>2. Types'
    BY <2>1 DEF Inv, Types
  <2>3. Aligned'
    BY <2>1 DEF Inv, Aligned, Prepared, ResultsBelongToRule
  <2>4. Called'
    BY <2>1 DEF Inv, Called, Ready
  <2> QED
    BY <2>2, <2>3, <2>4 DEF Inv
<1> QED
  BY <1>1, <1>2, <1>3, <1>4, <1>5, <1>6, <1>7, <1>8, <1>9, <1>10, <1>11 DEF Next

\* At the end of the results every ready rule has been called back.
LEMMA InvCallsBack == Inv => CallsBackTheReady
<1> SUFFICES ASSUME Inv PROVE CallsBackTheReady
  OBVIOUS
<1>1. DOMAIN pollfds = 1..Len(pollfds)
  BY PollFDs DEF Inv
<1>2. called \subseteq {<<k, pollfds[k].rule>> : k \in Ready}
  BY DEF Inv, Called
<1>3. ASSUME pc = "results", it > Len(rules), NEW k \in Ready PROVE <<k, pollfds[k].rule>> \in called
  <2>1. Len(rules) - it >= Len(pollfds) - idx
    BY <1>3 DEF Inv, Aligned, ResultsBelongToRule
  <2>2. it \in Nat /\ idx \in Nat /\ Len(rules) \in Nat /\ Len(pollfds) \in Nat
    BY LenProperties DEF Inv, Types
  <2>3. k \in 1..Len(pollfds)
    BY DEF Ready
  <2>4. k < idx
    BY <1>3, <2>1, <2>2, <2>3
  <2> QED
    BY <1>3, <2>4 DEF Inv, Called
<1> QED
  BY <1>1, <1>2, <1>3 DEF CallsBackTheReady, Ready

\* Whatever is erased and added while the results are read, each of them is read
\* for the rule it belongs to.
THEOREM ResultsAlwaysBelong == Spec => []ResultsBelongToRule
<1>1. Inv => ResultsBelongToRule
  BY DEF Inv, Aligned
<1> QED
  BY <1>1, InitInv, NextInv, PTL DEF Spec

\* Of the polled rules wait_next_event() calls back those that poll() reported,
\* and all of them before it reports success.
THEOREM CallsBackExactly == Spec => []CallsBackTheReady
<1> QED
  BY InvCallsBack, InitInv, NextInv, PTL DEF Spec

=============================================================================
