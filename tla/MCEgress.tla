------------------------------ MODULE MCEgress ------------------------------
(* A small instance of both ways out.                                         *)
EXTENDS WaysOut

(* Two hosts, one reachable by both schemes.                                  *)
WebUrls == {"https://a", "http://a", "http://b", "ftp://a"}
WebScheme == [u \in WebUrls |->
  CASE u = "https://a" -> "https" [] u = "ftp://a" -> "ftp" [] OTHER -> "http"]
WebHost == [u \in WebUrls |-> IF u = "http://b" THEN "b" ELSE "a"]

(* A public address, another one and a private one, the latter, none.         *)
WebAnswers == {<<"public">>, <<"other", "private">>, <<"private">>, <<>>}

(* A host that answers two public addresses, a private one second, or none.   *)
WebResolves == [n \in {"a"} |-> {<<"public", "other">>, <<"public", "private">>, <<>>}]
=============================================================================
