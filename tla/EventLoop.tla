------------------------------ MODULE EventLoop ------------------------------
(***************************************************************************)
(* EventLoop::wait_next_event(), one step for each iteration of its two    *)
(* loops, so that what the application's callbacks do in one iteration is  *)
(* seen by the next.                                                       *)
(*                                                                         *)
(* The functions of a rule belong to the application: interest() answers   *)
(* as it likes, and a callback or a cancel may use its descriptor, close   *)
(* any descriptor and add a rule, also one like a rule that is or was in   *)
(* the list.  After an exception the loop is not used again.               *)
(***************************************************************************)
EXTENDS Integers, Sequences, SequencesExt

CONSTANTS
    Rule,      \* the rules the application may add
    FD,        \* the file descriptors
    fd,        \* the descriptor of each rule
    direction, \* the direction of each rule, "In" or "Out"
    MaxRules   \* bound: the length of the list

ASSUME EventLoopAssumption ==
    /\ fd \in [Rule -> FD]
    /\ direction \in [Rule -> {"In", "Out"}]
    /\ MaxRules \in Nat

VARIABLES
    rules,        \* _rules
    eof, closed,  \* the descriptors at the end of their input, and the closed ones
    pc,           \* where wait_next_event() is: "idle" between two calls
    it, idx,      \* the loops' position in the rules and in pollfds (from 1)
    pollfds,      \* what is passed to poll; `rule' is not in the code
    result        \* what the last call returned, "none" during a call

\* Not in the code: for which results of this call's poll a callback was made,
\* each with the rule it was made for, and whether the last step added a rule.
VARIABLES called, added

appVars  == <<eof, closed>>
loopVars == <<rules, pc, it, idx, pollfds, result>>
vars     == <<appVars, loopVars, called, added>>

Init ==
    /\ rules = <<>> /\ eof = {} /\ closed = {}
    /\ pc = "idle" /\ it = 1 /\ idx = 1 /\ pollfds = <<>> /\ result = "none"
    /\ called = {} /\ added = FALSE

\* A test that forgets the descriptors that were closed.
defunct_at_eof(r) == direction[r] = "In" /\ fd[r] \in eof

\* The two tests before a rule is polled.
defunct(r) == (direction[r] = "In" /\ fd[r] \in eof) \/ fd[r] \in closed

-----------------------------------------------------------------------------
\* The list is `list' now, with no new rule.
no_rule(list) == rules' = list /\ added' = FALSE

\* add_rule(): any rule goes to the end of the list.
add_rule(list) ==
    /\ Len(list) < MaxRules
    /\ \E r \in Rule : rules' = Append(list, r)
    /\ added' = TRUE

\* What the application does in a callback or a cancel, with `list' the rules it
\* leaves.  Closing sets both flags of the descriptor, and reading may find its
\* end.
AppActs(ended, list) ==
    /\ \E closing \in SUBSET FD : closed' = closed \cup closing /\ eof' = eof \cup closing \cup ended
    /\ no_rule(list) \/ add_rule(list)

\* Between two calls the application may do the same.
Application ==
    /\ pc = "idle"
    /\ AppActs({}, rules)
    /\ UNCHANGED <<pc, it, idx, pollfds, result, called>>

\* this_rule.cancel(), and the rule is erased.
Cancel == AppActs({}, RemoveAt(rules, it))

\* A call's variables end with it.
return(res) ==
    /\ pc' = "idle" /\ result' = res
    /\ it' = 1 /\ idx' = 1 /\ pollfds' = <<>>
    /\ called' = {}

-----------------------------------------------------------------------------
Wait ==
    /\ pc = "idle"
    /\ pc' = "setup" /\ result' = "none"
    /\ no_rule(rules)
    /\ UNCHANGED <<it, idx, pollfds, appVars, called>>

\* A loop that goes on without having erased the rule.
drop_without_erase == AppActs({}, rules) /\ UNCHANGED <<it, pollfds>>

\* A defunct rule is erased, and the next one takes its place.
drop == Cancel /\ UNCHANGED <<it, pollfds>>

SetupRule ==
    /\ pc = "setup" /\ it <= Len(rules)
    /\ LET r == rules[it]
       IN  \/ /\ defunct(r)
              /\ drop
           \/ /\ ~defunct(r)
              /\ \E interest \in BOOLEAN :
                    pollfds' = Append(pollfds, [rule |-> r, events |-> interest, revents |-> {}])
              /\ it' = it + 1
              /\ no_rule(rules)
              /\ UNCHANGED appVars
    /\ UNCHANGED <<pc, idx, result, called>>

SetupDone ==
    /\ pc = "setup" /\ it > Len(rules)
    /\ \/ /\ \A k \in DOMAIN pollfds : ~pollfds[k].events
          /\ return("Exit")
       \/ /\ \E k \in DOMAIN pollfds : pollfds[k].events
          /\ pc' = "poll"
          /\ UNCHANGED <<it, idx, pollfds, result, called>>
    /\ no_rule(rules)
    /\ UNCHANGED appVars

\* poll() is external.  It reports an event only if it was asked for, and a
\* hangup or an error for any descriptor.  The number of a closed one is an
\* error, or by now somebody else's.
Reports(p) == {ev \in SUBSET {"event", "hup", "error"} : "event" \in ev => p.events}

PollReports ==
    /\ pc = "poll"
    /\ \E revents \in [DOMAIN pollfds -> SUBSET {"event", "hup", "error"}] :
          /\ \A k \in DOMAIN pollfds : revents[k] \in Reports(pollfds[k])
          /\ \E k \in DOMAIN pollfds : revents[k] # {}
          /\ pollfds' = [k \in DOMAIN pollfds |-> [pollfds[k] EXCEPT !.revents = revents[k]]]
    /\ pc' = "results" /\ it' = 1 /\ idx' = 1
    /\ no_rule(rules)
    /\ UNCHANGED <<result, appVars, called>>

PollTimesOut ==
    /\ pc = "poll"
    /\ return("Timeout")
    /\ no_rule(rules)
    /\ UNCHANGED appVars

PollInterrupted ==
    /\ pc = "poll"
    /\ return("Exit")
    /\ no_rule(rules)
    /\ UNCHANGED appVars

\* Any other failure of poll() leaves revents as it was, and is caught.
PollFails ==
    /\ pc = "poll"
    /\ pc' = "results" /\ it' = 1 /\ idx' = 1
    /\ no_rule(rules)
    /\ UNCHANGED <<pollfds, result, appVars, called>>

-----------------------------------------------------------------------------
throw == pc' = "threw"

\* ++idx.  Behind the end of pollfds one index is as undefined as the next.
next_result == idx' = IF idx <= Len(pollfds) THEN idx + 1 ELSE idx

\* ++it, and ++idx.
next_rule == it' = it + 1 /\ next_result

\* The callback of rule r, and the test for a busy wait.  A callback that uses
\* its descriptor after it was closed may get an exception from it.  `uses' says
\* whether service_count() has changed.
Callback(r) ==
    /\ called' = IF idx <= Len(pollfds) THEN called \cup {<<idx, r>>} ELSE called
    /\ \E uses, interest \in BOOLEAN, ended \in SUBSET {fd[r]} :
          /\ ended # {} /\ direction[r] = "In" => uses
          /\ AppActs(ended, rules)
          /\ \/ /\ (uses /\ fd[r] \in closed) \/ (~uses /\ interest)
                /\ throw
                /\ UNCHANGED <<it, idx>>
             \/ /\ uses \/ ~interest
                /\ next_rule
                /\ UNCHANGED pc

\* A loop that leaves idx alone when it erases a rule.
hangup_misaligned == Cancel /\ UNCHANGED <<it, idx>>

\* A test that gives up what can still be read before the hangup.
only_hung_up_early(p) == p.events /\ "hup" \in p.revents

\* "we asked for the status, and the _only_ condition was a hangup".
only_hung_up(p) == p.events /\ "hup" \in p.revents /\ "event" \notin p.revents

\* Then the rule is erased, and idx goes on without it.
hangup == Cancel /\ next_result /\ UNCHANGED it

\* pollfds[idx], which for a rule that was added after poll() lies behind the
\* end of the vector: undefined, and whatever the memory there holds.
result_at(k) ==
    IF k <= Len(pollfds)
    THEN {pollfds[k]}
    ELSE [rule : {rules[it]}, events : {TRUE}, revents : SUBSET {"event", "hup", "error"}]
         \cup [rule : {rules[it]}, events : {FALSE}, revents : SUBSET {"hup", "error"}]

ResultStep ==
    /\ pc = "results" /\ it <= Len(rules)
    /\ \E p \in result_at(idx) : LET r == rules[it]
       IN  \/ /\ "error" \in p.revents
              /\ throw
              /\ no_rule(rules)
              /\ UNCHANGED <<it, idx, appVars, called>>
           \/ /\ "error" \notin p.revents /\ only_hung_up(p)
              /\ hangup
              /\ UNCHANGED <<pc, called>>
           \/ /\ "error" \notin p.revents /\ ~only_hung_up(p) /\ "event" \in p.revents
              /\ Callback(r)
           \/ /\ "error" \notin p.revents /\ ~only_hung_up(p) /\ "event" \notin p.revents
              /\ next_rule
              /\ no_rule(rules)
              /\ UNCHANGED <<pc, appVars, called>>
    /\ UNCHANGED <<pollfds, result>>

ResultsDone ==
    /\ pc = "results" /\ it > Len(rules)
    /\ return("Success")
    /\ no_rule(rules)
    /\ UNCHANGED appVars

Poll == PollReports \/ PollTimesOut \/ PollInterrupted \/ PollFails

Next ==
    \/ Application
    \/ Wait \/ SetupRule \/ SetupDone
    \/ PollReports \/ PollTimesOut \/ PollInterrupted \/ PollFails
    \/ ResultStep \/ ResultsDone

Spec == Init /\ [][Next]_vars

\* A call that has begun goes on, poll() has a timeout, and the application calls
\* again until it is told to exit.
FairSpec ==
    /\ Spec
    /\ WF_vars(SetupRule \/ SetupDone \/ Poll \/ ResultStep \/ ResultsDone)
    /\ WF_vars(result # "Exit" /\ Wait)

-----------------------------------------------------------------------------
\* The results are read at the index of the rule they belong to: however many
\* rules the loop erases and the callbacks add on the way, every rule that was
\* polled is still to come at the distance of its result, and only the rules
\* behind them have none.
ResultsBelongToRule ==
    pc = "results" =>
        /\ Len(rules) - it >= Len(pollfds) - idx
        /\ \A k \in 0..(Len(pollfds) - idx) : pollfds[idx + k].rule = rules[it + k]

\* A callback is called "when `fd' is ready" (eventloop.cc): of the rules that
\* were polled only those that poll has reported, and all of them before the
\* call reports success.  (A rule added by a callback of this call may be called
\* back without having been polled, see result_at.)
CallsBackTheReady ==
    LET ready == {k \in DOMAIN pollfds : "event" \in pollfds[k].revents}
    IN  /\ called \subseteq {<<k, pollfds[k].rule>> : k \in ready}
        /\ pc = "results" /\ it > Len(rules) => {<<k, pollfds[k].rule>> : k \in ready} \subseteq called

\* Every call comes to an end, unless the application's functions keep adding
\* rules: a cancel() that adds a rule on a closed descriptor each time keeps the
\* first loop busy for ever.
WaitReturns ==
    <>[]~added => (pc \in {"setup", "poll", "results"} ~> pc \in {"idle", "threw"})

\* "Once this occurs, the Rule is canceled, i.e., the EventLoop deletes it"
\* (eventloop.hh): when the descriptor of a rule has ended or been closed, in
\* whatever call and by whatever function, the rule leaves the list, unless an
\* exception or Exit ends the loop first or rules are added for ever.
DefunctRulesGo ==
    <>[]~added =>
        \A r \in Rule :
            (r \in Range(rules) /\ (fd[r] \in closed \/ (direction[r] = "In" /\ fd[r] \in eof)))
                ~> (r \notin Range(rules) \/ pc = "threw" \/ result = "Exit")

=============================================================================
