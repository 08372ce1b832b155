-------------------------- MODULE MCSchemaRegistry --------------------------
(***************************************************************************)
(* The instance of Schemas that TLC checks: an NSID in two revisions and   *)
(* two texts of one of them, one that is built in, and three bodies that   *)
(* are no schema.                                                          *)
(***************************************************************************)
EXTENDS Schemas

Task == <<"com", "example", "task">>

Body(id, revision, record) ==
    [lexicon |-> 1, id |-> id, revision |-> revision, main |-> TRUE, record |-> record]

Titled    == [required |-> {"title"}, properties |-> [title |-> [type |-> "string", maxLength |-> 2]]]
Counted   == [required |-> {"title"}, properties |->
                 [title |-> TextField, count |-> [type |-> "integer", minimum |-> 1]]]
Listed    == [required |-> {}, properties |->
                 [parts |-> [type |-> "array", maxItems |-> 1, items |->
                     [type |-> "object", required |-> {"title"}, properties |-> Texts({"title"})]]]]

PostedBodies ==
    {Body(Task, Number(2), Titled), Body(Task, Number(2), Listed), Body(Task, Number(4), Counted),
     Body(Memory("skill"), Number(4), Counted),
     Body(Task, Number(3), Titled), Body(<<"com", "example">>, Number(2), Titled),
     [Body(Task, Number(2), Titled) EXCEPT !.main = FALSE]}

InputData ==
    {[title |-> v] : v \in {String(1), String(3), Bool, Null}}
        \cup {[title |-> String(1), count |-> Number(h)] : h \in {0, 1, 2}}
        \cup {[parts |-> Array(s)] : s \in {<<>>, <<Object([title |-> String(1)])>>,
                                            <<Object([count |-> Number(2)])>>, <<Bool, Bool>>}}
        \cup {[content |-> String(1), topic |-> Array(<<String(1)>>)]}
=============================================================================
