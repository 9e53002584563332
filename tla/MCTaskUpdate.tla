---------------------------- MODULE MCTaskUpdate ------------------------------
(* Finite instances of TaskUpdate for TLC: requests that between them change *)
(* every field and choose every schedule, on to-dos in the Inbox, in Anytime *)
(* with a due deadline, pinned to Today, and in Someday.                     *)
EXTENDS TaskUpdate, TLC

Asked(set, when, day, token) == [set |-> set, when |-> when, day |-> day, token |-> token]

MCRequests ==
  {Asked([title |-> "new", notes |-> <<"more">>], "keep", 0, token) : token \in BOOLEAN}
    \cup {Asked([title |-> "new"], "today", 0, FALSE),
          Asked([tags |-> {"b"}, checklist |-> <<"item">>], "keep", 0, TRUE),
          Asked([deadline |-> 2], "anytime", 0, TRUE),
          Asked([deadline |-> 1], "someday", 0, TRUE),
          Asked([notes |-> <<"more">>], "evening", 0, TRUE),
          Asked([tags |-> {"b"}], "date", 2, TRUE)}

Task(start, date, deadline, pinned) ==
  [fields |-> [title |-> "old", notes |-> <<"text">>, tags |-> {"a"}, checklist |-> <<>>,
               deadline |-> deadline],
   start |-> start, date |-> date, bucket |-> 0, pinned |-> pinned, open |-> TRUE]

MCTasks == {Task(0, 0, 0, FALSE), Task(1, 0, 1, TRUE), Task(2, 2, 0, FALSE)}

MCEdits ==
  [title |-> {"old", "edit"}, notes |-> {<<"edit">>}, tags |-> {{"a"}, {"a", "c"}},
   checklist |-> {<<>>, <<"edit">>}, deadline |-> {0, 1}]

MCSchedules ==
  {[when |-> "clear", day |-> 0, pinned |-> FALSE], [when |-> "clear", day |-> 0, pinned |-> TRUE],
   [when |-> "day", day |-> 1, pinned |-> FALSE], [when |-> "day", day |-> 2, pinned |-> FALSE]}

\* A to-do that is in Today only because its deadline is due, to be put in Today, or in
\* This Evening, with a later deadline.
MCDeadlineRequests == {Asked([deadline |-> 2], when, 0, TRUE) : when \in {"today", "evening"}}
MCDueTasks == {Task(1, 0, 1, FALSE)}

Symmetry == Permutations(Sessions)

=============================================================================
