------------------------------ MODULE MCReqPath -----------------------------
(* Instances of ReqPath for TLC: what a client sends, and where keys are.    *)
EXTENDS ReqPath

\* Keys 1 and 3 are on host 1, key 2 is on host 3, keys 4 and 5 on host 2.
\* The backup of key 2 is the dead host 2, the backup of keys 1 and 5 host 3.
KeyHosts == <<1, 3, 1, 2, 2>>
KeyBackups == <<3, 2, 0, 2, 3>>

Item(op, k) == [op |-> op, key |-> k]
Single(op, k) == <<Item(op, k)>>
MultiGet(keys) == [n \in DOMAIN keys |-> Item("getkq", keys[n])] \o Single("noop", 1)

\* Writes with and without a copy, reads, and multi-gets with hits, misses
\* (key 3) and keys of a silent host (key 4) that comes after and before the
\* only one that answers.
BinaryRequests ==
    { Single("set", 1), Single("set", 2), Single("set", 5), Single("get", 2), Single("get", 3),
      Single("other", 1), MultiGet(<<3>>), MultiGet(<<1, 3, 4, 1>>), MultiGet(<<4, 2>>) }
TextRequests ==
    { Single("set", 1), Single("set", 2), Single("set", 3), Single("get", 1), Single("get", 3),
      Single("get", 4), Single("mget", 1), Single("touch", 1), Single("other", 1) }

\* Up to n requests, and a quit.
UpTo(n, requests) ==
    { FlattenSeq(rs) \o Single("quit", 1) : rs \in UNION {[1 .. m -> requests] : m \in 1 .. n} }
OneHostStreams == [binary |-> UpTo(3, BinaryRequests), text |-> UpTo(2, TextRequests)]

\* A multi-get for a key of each of two hosts.
TwoHostStreams == [binary |-> { MultiGet(<<1, 2>>) }]
=============================================================================
