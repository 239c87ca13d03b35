------------------------------ MODULE MCJobControl ------------------------------
(***************************************************************************)
(* Small instances of JobControl.  The ways in which a session can be      *)
(* disturbed are each given the bound they need, instead of all of them    *)
(* together the smallest one.                                              *)
(***************************************************************************)
EXTENDS JobControl

\* A command that stops again and again while the user moves the job.
Stopping == [keys |-> {"TSTP"}, cancels |-> {}, orphans |-> FALSE, events |-> 3]

\* Two keys, one of which may end the command.
Pressing == [keys |-> {"INT", "TSTP"}, cancels |-> {}, orphans |-> FALSE, events |-> 2]

\* Both contexts may be canceled around a stop, and the group of the command
\* outlives it.
Canceling == [keys |-> {"TSTP"}, cancels |-> {"outer", "sup"}, orphans |-> TRUE, events |-> 1]

\* A descendant leaves the group of a command that nobody disturbs.
Detaching == [keys |-> {}, cancels |-> {}, orphans |-> TRUE, events |-> 0]

MCLoads == {Stopping, Pressing, Canceling}
MCDetaching == {Detaching}

===============================================================================
