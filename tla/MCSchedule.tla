------------------------------ MODULE MCSchedule ------------------------------
\* A day of four units of six hours, a week of two days.
EXTENDS Schedule, TLC

At(s, e)   == [start |-> s, end |-> e]
Staff      == [role |-> "STAFF", own |-> "r1"]
Admin      == [role |-> "ADMIN", own |-> None]
Cast       == [role |-> "CAST", own |-> "r1"]
Two(a, b)  == [d \in {0, 1} |-> IF d = 0 THEN a ELSE b]
WeekOf(f, u, a, b) == [kind |-> "week", from |-> f, until |-> u, week |-> Two(a, b)]
Single(s, e) == [kind |-> "single", start |-> s, end |-> e]

MCPosts ==
  {[caller |-> Staff, asked |-> None, job |-> j] : j \in
     {Single(9, 11),
      WeekOf(1, 2, <<At(3, 1)>>, <<At(0, 1), At(2, 0)>>),
      WeekOf(1, 2, <<At(1, 2), At(1, 2)>>, <<>>)}}
  \cup {[caller |-> Cast, asked |-> None, job |-> Single(8, 10)],
         [caller |-> Staff, asked |-> "r2", job |-> Single(8, 10)],
         [caller |-> Admin, asked |-> None, job |-> WeekOf(0, 1, <<At(2, 3)>>, <<At(0, 2), At(3, 1)>>)]}

MCOldRows ==
  {[res |-> "r1", start |-> 8, end |-> 9, weekly |-> TRUE, by |-> None],
   [res |-> "r1", start |-> 11, end |-> 12, weekly |-> FALSE, by |-> None]}

MCOrders == {[res |-> "r1", start |-> 7, end |-> 8], [res |-> "r1", start |-> 9, end |-> 10]}
Symm == Permutations(Requests)
MCCores == {Flex, Two({At(2, 1)}, {At(2, 0)})}
=============================================================================
