--------------------------- MODULE MCLangGraphStore ---------------------------
EXTENDS LangGraphStore, TLC

\* A namespace, one whose name it begins, and a key of a namespace of the store.
MCOrder  == << <<"k">>, <<"user", "k">>, <<"user2", "k">> >>
MCBegins == {<<"user", "user2">>}

Put(p, v, i) == [op |-> "put", path |-> p, value |-> v, index |-> i]
Search(ns, q, vs, o) ==
    [op |-> "search", prefix |-> ns, query |-> q, values |-> vs, limit |-> 2, offset |-> o]

Symmetry == Permutations(Workers)

a == <<"user", "k">>
b == <<"user2", "k">>

MCBatches ==
    { <<Put(a, "v1", TRUE), [op |-> "get", path |-> a]>>,
      <<Put(a, "v2", FALSE), Put(b, "v2", TRUE)>>,
      <<Put(<<"k">>, "v1", FALSE)>>,
      <<[op |-> "delete", path |-> a]>>,
      <<Search(<<"user">>, FALSE, {"v1", "v2"}, 0)>>,
      <<Search(<< >>, FALSE, {"v2"}, 0)>>,
      <<Search(<<"user">>, TRUE, {"v1", "v2"}, 1)>>,
      <<[op |-> "namespaces", depth |-> 1, limit |-> 1, offset |-> 0,
         match |-> {[type |-> "suffix", path |-> <<"*">>]}]>> }
===============================================================================
