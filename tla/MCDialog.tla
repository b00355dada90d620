------------------------------ MODULE MCDialog ------------------------------
(***************************************************************************)
(* Dialog for TLC.  A file of three bytes, a message of two and one of     *)
(* one.  The accounts: one is played at four bytes a second in two slices, *)
(* which are its messages; one answers queries, and is played whole; one   *)
(* is played at two bytes a second, in slices that cut its first message.  *)
(* The clients: one for each account; with a wrong password; with one that *)
(* is as long as the field, and one longer; with a code that is another's  *)
(* in 16 bits; with a query for a login's type.                            *)
(***************************************************************************)
EXTENDS Dialog, TLC

Query == 7 :> "seven"

MCAccount ==
  {[code |-> 100, pwd |-> <<"a">>, type |-> "broadcast", q_files |-> << >>,
    pb_file |-> "pb", jnl_file |-> "jnl", jnl_rate |-> 4],
   [code |-> 200, pwd |-> <<"a", "b">>, type |-> "query", q_files |-> Query,
    pb_file |-> "pb", jnl_file |-> "jnl", jnl_rate |-> 0],
   [code |-> 300, pwd |-> <<"a", "b">>, type |-> "query", q_files |-> Query,
    pb_file |-> NoFile, jnl_file |-> "slow", jnl_rate |-> 2]}

MCClient ==
  {[code |-> 100, pwd |-> <<"a">>, query_msgs |-> << >>],
   [code |-> 100, pwd |-> <<"b">>, query_msgs |-> <<7>>],
   [code |-> 100, pwd |-> <<"a", " ">>, query_msgs |-> <<7>>],
   [code |-> 200, pwd |-> <<"a", "b">>, query_msgs |-> <<7, 8>>],
   [code |-> 200, pwd |-> <<"a", "b", "c">>, query_msgs |-> <<7>>],
   [code |-> 300, pwd |-> <<"a", "b">>, query_msgs |-> <<7>>],
   [code |-> 200, pwd |-> <<"a", "b">>, query_msgs |-> <<FeedLogin, 7>>],
   [code |-> 65636, pwd |-> <<"a">>, query_msgs |-> << >>],
   [code |-> 400, pwd |-> <<"a">>, query_msgs |-> << >>]}

MCBoundary == {2, 3}
=============================================================================
