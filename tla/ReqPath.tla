------------------------------ MODULE ReqPath -------------------------------
(***************************************************************************)
(* The way of a request through one worker thread (readEvent and           *)
(* talkToBackend, src/src/kvproxy.cpp) with the two protocols of the       *)
(* memcached extension (src/src/ext/memcached/memcached.cpp): bytes arrive *)
(* from the client, requests are cut out of them, grouped by host and      *)
(* forwarded, the hosts' answers are collected in resp_buf and copied into *)
(* one response.  A write to a key with the sync prefix then goes to the   *)
(* backup host in a second round.                                          *)
(*                                                                         *)
(* Messages are made of units: <<i, p>> is part p of item i of the client, *)
(* <<i, p, h>> part p of the answer of host h to it.  Part 0 is a binary   *)
(* header or a line of text, part 1 the body or the data, and part 2 the   *)
(* rest of a text answer with two values, from after its second "VALUE".   *)
(* recv() may also end inside unit p of an answer in text: its first piece *)
(* is p + 3, what is left of it p + 6.                                     *)
(* Quiet gets are ended by a noop, as clients do for a multi-get, and the  *)
(* client waits for its response, or gives up, before it goes on.          *)
(* Connections do not fail here, but a host may be silent: see ConnPool    *)
(* for the rest.                                                           *)
(***************************************************************************)
EXTENDS Naturals, FiniteSets, SequencesExt

CONSTANTS
    Streams,     \* protocol |-> what a client may send: sequences of [op, key]
    Hosts,       \* aliases of the hosts
    Owner,       \* Owner[k]: the host that hash.find gives for key k
    Backup,      \* Backup[k]: the host of key k in hash_backup, 0 if empty
    SyncKeys,    \* keys that begin with sync_str
    Miss,        \* keys the hosts do not have
    Dead         \* hosts that accept requests and never answer

Ops == [binary |-> {"get", "set", "getkq", "noop", "quit", "other"},
        text   |-> {"get", "set", "mget", "touch", "quit", "other"}]
ASSUME StreamsAssumption ==
    /\ DOMAIN Streams \subseteq DOMAIN Ops
    /\ \A p \in DOMAIN Streams : Streams[p] \subseteq Seq([op : Ops[p], key : DOMAIN Owner])
    /\ \A p \in DOMAIN Streams : \A s \in Streams[p] : \A i \in DOMAIN s :
          s[i].op = "getkq" => i < Len(s) /\ s[i + 1].op \in {"getkq", "noop"}
ASSUME HostsAssumption ==
    /\ Owner \in [DOMAIN Owner -> Hosts] /\ Hosts \subseteq Nat \ {0}
    /\ Backup \in [DOMAIN Owner -> Hosts \cup {0}] /\ SyncKeys \subseteq DOMAIN Owner
    /\ Dead \subseteq Hosts

VARIABLES
    proto,         \* the configured protocol, which the client and hosts speak
    stream,        \* what this client sends
    sent,          \* units of the stream that have arrived
    read_buf,      \* the input buffer of the client's connection
    pc,            \* control state of the worker
    req_group,     \* host |-> items to forward, for the hosts still to do
    sync_group,    \* the same for the second round
    wire,          \* host |-> units of its answers not yet received
    resp_buf,      \* the receive buffer, contents of earlier uses included
    resp_buf_len,  \* how much of it the current host has filled
    position,      \* where PARSE_RESP goes on
    resp_list,     \* the answers found: pointers into resp_buf
    client_buf,    \* the response as the last talkToBackend left it
    st_cont_fail,  \* host |-> failures since the last success
    replies,       \* the responses written to the client, << >> if none was
    torn           \* history: the first request of which an answer was taken
                   \* before all of it was there, 0 if there is none

vars == <<proto, stream, sent, read_buf, pc, req_group, sync_group, wire, resp_buf,
          resp_buf_len, position, resp_list, client_buf, st_cont_fail, replies,
          torn>>
client == <<proto, stream, sent, read_buf>>
backend == <<wire, resp_buf, resp_buf_len, position>>

\* The elements of seq that are in S, in their order.
Only(seq, S) == FlattenSeq([n \in DOMAIN seq |-> IF seq[n] \in S THEN <<seq[n]>> ELSE << >>])

\* The items of the client with one of these commands.
With(ops) == {i \in DOMAIN stream : stream[i].op \in ops}

HasBody(i) == IF proto = "text" THEN stream[i].op = "set"
              ELSE stream[i].op \notin {"noop", "quit", "other"}
RequestLen(i) == IF HasBody(i) THEN 2 ELSE 1

\* A get that misses is answered with a body in binary, with END in text, and
\* a quiet one not at all.
AnswerLen(i) ==
    LET hit == stream[i].key \notin Miss
    IN  CASE stream[i].op = "mget"  -> IF hit THEN 3 ELSE 1
          [] stream[i].op = "get"   -> IF hit \/ proto = "binary" THEN 2 ELSE 1
          [] stream[i].op = "getkq" -> IF hit THEN 2 ELSE 0
          [] OTHER -> 1
Answer(h, i) == [p \in 1 .. AnswerLen(i) |-> <<i, p - 1, h>>]
Answers(h, items) == FlattenSeq([n \in DOMAIN items |-> Answer(h, items[n])])

Bytes == FlattenSeq([i \in DOMAIN stream |-> [p \in 1 .. RequestLen(i) |-> <<i, p - 1>>]])

\* A request of the client: quiet gets and what ends them, or a single item.
RequestOf(i) == 1 + Cardinality({j \in 1 .. (i - 1) : stream[j].op # "getkq"})
Requests == Cardinality({i \in DOMAIN stream : stream[i].op \notin {"getkq", "quit"}})
ItemsOf(r) == Only([i \in DOMAIN stream |-> i], {i \in DOMAIN stream : RequestOf(i) = r})

Init ==
    /\ proto \in DOMAIN Streams /\ stream \in Streams[proto]
    /\ sent = 0 /\ read_buf = << >> /\ pc = "wait"
    /\ req_group = << >> /\ sync_group = << >>
    /\ wire = [h \in Hosts |-> << >>]
    /\ resp_buf = << >> /\ resp_buf_len = 0 /\ position = 0
    /\ resp_list = << >> /\ client_buf = << >>
    /\ st_cont_fail = [h \in Hosts |-> 0]
    /\ replies = << >> /\ torn = 0

-----------------------------------------------------------------------------
(***************************************************************************)
(* The extension                                                           *)
(***************************************************************************)

\* Mutant: the body is not waited for.
TooShort_Never(size, len) == FALSE

\* The length test of PARSE_REQ and PARSE_RESP.
TooShort(size, len) == size < len

\* is_binary_protocol: the first byte is one of the two magic numbers.
IsBinary(unit) == proto = "binary" /\ unit[2] = 0

\* In binary PARSE_REQ refuses an opcode that it does not know.  In text
\* get_opcode gives a word it does not know the opcode 0, which is that of get:
\* with an argument ("touch") it is a read of that key, without one ("other")
\* a request without a key.
BadOpcode(i) == stream[i].op = "other" /\ proto = "binary"

\* PARSE_REQ: cut items off buf until one is not a quiet get.  The length
\* test compares with the whole of buf, not with what is left of it.
PARSE_REQ(buf) ==
    LET result(ret, list) == [ret |-> ret, list |-> list]
        parse[pos \in 0 .. (Len(buf) + 1)] ==
          IF pos >= Len(buf) THEN result("AGAIN", << >>)
          ELSE LET i == buf[pos + 1][1]
                   rest == parse[pos + RequestLen(i)]
               IN  IF IsBinary(buf[pos + 1]) # (proto = "binary") THEN result("ERROR", << >>)
                   ELSE IF stream[i].op = "quit" THEN result("IGNORE", << >>)
                   ELSE IF BadOpcode(i) THEN result("ERROR", << >>)
                   ELSE IF TooShort(Len(buf), RequestLen(i)) THEN result("AGAIN", << >>)
                   ELSE IF stream[i].op # "getkq" THEN result("SUCCESS", <<i>>)
                   ELSE [rest EXCEPT !.list = <<i>> \o @]
    IN  parse[0]

\* CREATE_REQ: a noop goes to the end, and only one of them.
CREATE_REQ(items) ==
    LET ends == Only(items, With({"noop"}))
    IN  Only(items, DOMAIN stream \ With({"noop"}))
            \o (IF ends = << >> THEN << >> ELSE <<Last(ends)>>)

\* try_read_response_text: the unit begins with "VALUE", and the data follow.
IsValue(unit) == proto = "text" /\ unit[2] = 0 /\ AnswerLen(unit[1]) > 1

\* PARSE_RESP from pos in the first size units of mem: the answers found, the
\* new position, and the results that are possible.  When pos is already past
\* what has arrived, is_agin is returned without having been set.  The first
\* unit decides between binary and text.  Of a text answer that begins with
\* "VALUE" the line, the data and five bytes more are one item; any other is
\* taken as it is, with all that has arrived after it.
PARSE_RESP(mem, size, pos) ==
    LET result(ret, items, p) == [ret |-> ret, items |-> items, pos |-> p]
        item(p, len) == [off |-> p, len |-> len,
                         end |-> IsBinary(mem[1]) /\ stream[mem[p + 1][1]].op = "noop"]
        binary[p \in 0 .. (size + 1)] ==
          LET i == mem[p + 1][1]
              len == AnswerLen(i)
          IN  IF ~ IsBinary(mem[p + 1]) THEN result({"ERROR"}, << >>, p)
              ELSE IF TooShort(size, len) THEN result({"AGAIN"}, << >>, p)
              ELSE IF p + len < size
              THEN [binary[p + len] EXCEPT !.items = <<item(p, len)>> \o @]
              ELSE result(IF stream[i].op = "getkq" THEN {"AGAIN"} ELSE {"SUCCESS"},
                          <<item(p, len)>>, p + len)
        text[p \in 0 .. (size + 1)] ==
          IF p = size THEN result({"SUCCESS"}, << >>, p)
          ELSE IF ~ IsValue(mem[p + 1]) THEN result({"SUCCESS"}, <<item(p, size - p)>>, size)
          ELSE IF TooShort(size - p, 2) THEN result({"AGAIN"}, << >>, p)
          ELSE [text[p + 2] EXCEPT !.items = <<item(p, 2)>> \o @]
    IN  IF pos >= size THEN result({"AGAIN", "SUCCESS"}, << >>, pos)
        ELSE IF IsBinary(mem[1]) THEN binary[pos] ELSE text[pos]

\* CREATE_RESP: copy the answers out of resp_buf, the last noop at the end.
JUNK == <<0, 0, 0>>
Content(item) == [k \in 1 .. item.len |->
                    IF item.off + k <= Len(resp_buf) THEN resp_buf[item.off + k] ELSE JUNK]
CREATE_RESP ==
    LET ends == Only(resp_list, {x \in Range(resp_list) : x.end})
        others == Only(resp_list, {x \in Range(resp_list) : ~ x.end})
    IN  FlattenSeq([n \in DOMAIN others |-> Content(others[n])])
            \o (IF ends = << >> THEN << >> ELSE Content(Last(ends)))

-----------------------------------------------------------------------------
(***************************************************************************)
(* The worker                                                              *)
(***************************************************************************)

\* Bytes from the client, which sends the next request when it has the
\* response to the last one or has given up on it.
Arrive ==
    /\ pc = "wait"
    /\ \E n \in (sent + 1) .. Len(Bytes) :
          /\ RequestOf(Bytes[n][1]) <= Len(replies) + 1
          /\ read_buf' = read_buf \o SubSeq(Bytes, sent + 1, n)
          /\ sent' = n
    /\ pc' = "read"
    /\ UNCHANGED <<proto, stream, req_group, sync_group, backend, resp_list, client_buf,
                   st_cont_fail, replies, torn>>

\* The items that have a key of host h in the table of hosts.
Keyed(list, table, h) ==
    Only(list, {i \in DOMAIN stream \ With({"noop", "other"}) : table[stream[i].key] = h})
Grouped(list, table) ==
    LET hosts == {h \in Hosts : Keyed(list, table, h) # << >>}
    IN  [h \in hosts |-> Keyed(list, table, h)]

\* Mutant: the noop goes only to the first of the hosts.
createReqGroup_One(list) ==
    LET group == Grouped(list, Owner)
        each == Only(list, With({"noop"}))
    IN  [h \in DOMAIN group |->
            IF \A g \in DOMAIN group : h <= g THEN group[h] \o each ELSE group[h]]

\* createReqGroup: items by the host of their key, and a noop to each host
\* that has items.
createReqGroup(list) ==
    LET group == Grouped(list, Owner)
        each == Only(list, With({"noop"}))
    IN  [h \in DOMAIN group |-> group[h] \o each]

\* createReqGroup: updates of keys with the sync prefix, by backup host.  The
\* other updates go to the queue that AsyncReq is about.
createSyncGroup(list) ==
    Grouped(Only(list, {i \in With({"set"}) : stream[i].key \in SyncKeys}), Backup)

\* readEvent up to talkToBackend.  All of the input is dropped as soon as one
\* request was found in it.  After an error the client waits in vain.
ReadEvent ==
    /\ pc = "read"
    /\ LET r == PARSE_REQ(read_buf)
       IN  /\ read_buf' = IF r.ret = "AGAIN" THEN read_buf ELSE << >>
           /\ IF r.ret = "SUCCESS"
              THEN /\ pc' = "talk"
                   /\ req_group' = createReqGroup(r.list)
                   /\ sync_group' = createSyncGroup(r.list)
              ELSE pc' = "wait" /\ UNCHANGED <<req_group, sync_group>>
           /\ replies' = IF r.ret = "ERROR" THEN Append(replies, << >>) ELSE replies
    /\ UNCHANGED <<proto, stream, sent, backend, resp_list, client_buf, st_cont_fail, torn>>

\* The hosts of a group are visited in the order of their aliases.
Host == CHOOSE h \in DOMAIN req_group : \A g \in DOMAIN req_group : h <= g
RestOfGroup == [h \in DOMAIN req_group \ {Host} |-> req_group[h]]

\* writeToBackend; the host answers each item, unless it is dead.
Forward ==
    /\ pc = "talk"
    /\ DOMAIN req_group # {}
    /\ wire' = [wire EXCEPT ![Host] =
                  IF Host \in Dead THEN @ ELSE @ \o Answers(Host, CREATE_REQ(req_group[Host]))]
    /\ resp_buf_len' = 0 /\ position' = 0
    /\ pc' = "recv"
    /\ UNCHANGED <<client, req_group, sync_group, resp_buf, resp_list, client_buf,
                   st_cont_fail, replies, torn>>

\* Mutant: an answer does not end the count.
countFail_NoReset(failed) ==
    st_cont_fail' = [st_cont_fail EXCEPT ![Host] = IF failed THEN @ + 1 ELSE @]

\* countFail, below st_limit: see Failover for the limit and for its races.
countFail(failed) ==
    st_cont_fail' = [st_cont_fail EXCEPT ![Host] = IF failed THEN @ + 1 ELSE 0]

\* The end of readFromBackend.  A host fails when resp_list is empty, but
\* resp_list also holds the answers of the hosts visited before.
NextHost ==
    /\ resp_buf_len' = 0 /\ position' = 0
    /\ countFail(resp_list' = << >>)
    /\ pc' = "talk" /\ req_group' = RestOfGroup

\* resp_buf after recv() has put these units behind what is there.
Received(units) ==
    LET len == resp_buf_len + Len(units)
    IN  [k \in 1 .. (IF len < Len(resp_buf) THEN Len(resp_buf) ELSE len) |->
            IF k \in (resp_buf_len + 1) .. len THEN units[k - resp_buf_len] ELSE resp_buf[k]]

\* Whether the extension sees that something is missing when recv() ends after
\* the n-th unit on the wire: an answer is complete, or the first one in
\* resp_buf still waits for its body or data.
Noticed(h, n) == n < Len(wire[h]) => resp_buf_len + n = 1 \/ wire[h][n + 1][2] = 0
TornHere == torn' = IF torn = 0 THEN Len(replies) + 1 ELSE torn

\* readFromBackend: one recv() and PARSE_RESP.
Recv ==
    /\ pc = "recv"
    /\ \E n \in 1 .. Len(wire[Host]) :
         LET len == resp_buf_len + n
             mem == Received(SubSeq(wire[Host], 1, n))
             r == PARSE_RESP(mem, len, position)
         IN  /\ wire' = [wire EXCEPT ![Host] = SubSeq(@, n + 1, Len(@))]
             /\ resp_buf' = mem
             /\ IF Noticed(Host, n) THEN UNCHANGED torn ELSE TornHere
             /\ \E ret \in r.ret :
                  /\ resp_list' = IF ret = "ERROR" THEN << >> ELSE resp_list \o r.items
                  /\ IF ret = "AGAIN"
                     THEN /\ resp_buf_len' = len /\ position' = r.pos
                          /\ UNCHANGED <<pc, req_group, st_cont_fail>>
                     ELSE NextHost
    /\ UNCHANGED <<client, sync_group, client_buf, replies>>

\* The same when recv() ends inside the unit after the n-th and PARSE_RESP does
\* not see it: try_read_response_text takes a piece of a line for an answer.
\* Inside a binary header, or in the data that a VALUE line has announced,
\* PARSE_RESP returns AGAIN and goes on where it was, as if the piece had come
\* with the next recv(); inside a later binary body it does what Recv does
\* before that body or, if the body is longer than resp_buf_len, before its
\* header.
RecvCut ==
    /\ pc = "recv"
    /\ \E n \in 0 .. (Len(wire[Host]) - 1) :
         LET unit == wire[Host][n + 1]
             piece(p) == <<unit[1], unit[2] + p, unit[3]>>
             whole == SubSeq(wire[Host], 1, n)
             len == resp_buf_len + n
             mem == Received(Append(whole, piece(3)))
         IN  /\ unit[2] \in 0 .. 2
             /\ ~ IsBinary(Received(Append(whole, unit))[1])
             /\ "SUCCESS" \in PARSE_RESP(mem, len, position).ret
             /\ wire' = [wire EXCEPT ![Host] = <<piece(6)>> \o SubSeq(@, n + 2, Len(@))]
             /\ resp_buf' = mem
             /\ resp_list' = resp_list \o PARSE_RESP(mem, len + 1, position).items
    /\ NextHost
    /\ TornHere
    /\ UNCHANGED <<client, sync_group, client_buf, replies>>

\* Mutant: the loop goes on after a timeout.
RecvTimeout_Again ==
    /\ pc = "recv"
    /\ wire[Host] = << >>
    /\ UNCHANGED vars

\* readFromBackend: nothing more comes; what was found so far is kept.
RecvTimeout ==
    /\ pc = "recv"
    /\ wire[Host] = << >>
    /\ UNCHANGED resp_list
    /\ NextHost
    /\ UNCHANGED <<client, sync_group, wire, resp_buf, client_buf, replies, torn>>

\* Mutant: resp_list is kept from one request to the next.
EndTalk_Keep ==
    /\ pc = "talk"
    /\ DOMAIN req_group = {}
    /\ client_buf' = CREATE_RESP
    /\ pc' = IF DOMAIN sync_group = {} THEN "reply" ELSE "talk"
    /\ req_group' = sync_group
    /\ sync_group' = << >>
    /\ UNCHANGED <<client, backend, resp_list, st_cont_fail, replies, torn>>

\* The end of talkToBackend.  The second round, if there is one, makes its own
\* response and overwrites that of the first.
EndTalk ==
    /\ pc = "talk"
    /\ DOMAIN req_group = {}
    /\ client_buf' = CREATE_RESP
    /\ resp_list' = << >>
    /\ pc' = IF DOMAIN sync_group = {} THEN "reply" ELSE "talk"
    /\ req_group' = sync_group
    /\ sync_group' = << >>
    /\ UNCHANGED <<client, backend, st_cont_fail, replies, torn>>

\* The end of readEvent: write the response, if there is one.
Reply ==
    /\ pc = "reply"
    /\ replies' = Append(replies, client_buf)
    /\ pc' = "wait"
    /\ UNCHANGED <<client, req_group, sync_group, backend, resp_list, client_buf, st_cont_fail,
                   torn>>

\* The event loop of the worker waits for the client.
Idle ==
    /\ pc = "wait"
    /\ UNCHANGED vars

Next ==
    \/ Arrive \/ ReadEvent \/ Forward \/ Recv \/ RecvCut \/ RecvTimeout \/ EndTalk \/ Reply
    \/ Idle

\* The event loop runs on, TCP delivers, and select() times out.
Spec == Init /\ [][Next]_vars /\ WF_vars(Next)

-----------------------------------------------------------------------------
(***************************************************************************)
(* Properties                                                              *)
(***************************************************************************)
AnswerUnit == (0 .. Len(stream)) \X (0 .. 8) \X (Hosts \cup {0})

\* Type invariant.  The item of every unit in a buffer exists, and the answers
\* found lie in resp_buf: only a torn answer is taken before it is there.
TypeOK ==
    /\ proto \in DOMAIN Streams /\ stream \in Streams[proto]
    /\ sent \in 0 .. Len(Bytes)
    /\ read_buf \in Seq((DOMAIN stream) \X {0, 1}) /\ resp_buf \in Seq(AnswerUnit)
    /\ pc \in {"wait", "read", "talk", "recv", "reply"}
    /\ DOMAIN req_group \subseteq Hosts /\ DOMAIN sync_group \subseteq Hosts
    /\ pc = "recv" => DOMAIN req_group # {}
    /\ client_buf \in Seq(AnswerUnit) /\ replies \in Seq(Seq(AnswerUnit))
    /\ st_cont_fail \in [Hosts -> Nat]
    /\ resp_buf_len \in 0 .. Len(resp_buf)
    /\ torn \in 0 .. (Len(replies) + 1)
    /\ LET ahead == IF torn = 0 THEN 0 ELSE 1
       IN  /\ position <= resp_buf_len + ahead
           /\ \A n \in DOMAIN resp_list :
                 resp_list[n].off + resp_list[n].len <= Len(resp_buf) + ahead

\* The hosts that request r is sent to, in the first and in the second round.
MainHosts(r) == DOMAIN Grouped(ItemsOf(r), Owner)
SyncHosts(r) == DOMAIN createSyncGroup(ItemsOf(r))

\* The response a request should get: for a write that is copied at once, the
\* answer of the backup; otherwise the answers of the living hosts to their
\* items, those of one host after those of another, and the noop at the end.
Expected(r) ==
    LET alive == (IF SyncHosts(r) = {} THEN MainHosts(r) ELSE SyncHosts(r)) \ Dead
        hosts == Only([h \in 1 .. Max(alive \cup {0}) |-> h], alive)
        table == IF SyncHosts(r) = {} THEN Owner ELSE Backup
        own(h) == Answers(h, Keyed(ItemsOf(r), table, h))
        ends == Only(ItemsOf(r), With({"noop"}))
    IN  FlattenSeq([n \in DOMAIN hosts |-> own(hosts[n])])
            \o (IF hosts = << >> THEN << >> ELSE Answers(Last(hosts), ends))

\* README: the binary and the text protocol of memcached are supported.  A
\* client that waits for its responses gets for each request the answers of
\* the hosts that are alive, whole, unaltered and in the order of the hosts
\* (the path from PARSE_REQ to CREATE_RESP, resp_buf used again for every
\* host), until an answer is torn: recv() ended inside or before the body of an
\* answer that is not the first in resp_buf (the test compares with all of the
\* buffer), in a line of text, or before the second value of a text answer.
\* A write with the sync prefix is acknowledged by the backup alone: the client
\* hears STORED only if the copy was made, hears nothing if it was not, and
\* does not hear whether the master has stored it.
ResponsesRight ==
    \A r \in 1 .. Len(replies) : torn = 0 \/ r < torn => replies[r] = Expected(r)

\* What a torn answer does to the response of its own request (PARSE_RESP has
\* taken it, CREATE_RESP copies what is at its place): the response is cut off,
\* or its last unit is wrong, but what comes before is right, nothing is out of
\* order and nothing comes twice.  It is never lost altogether.
TornAtTheEnd ==
    torn \in 1 .. Len(replies) =>
        \/ replies[torn] = << >> /\ Expected(torn) = << >>
        \/ replies[torn] # << >> /\ IsPrefix(Front(replies[torn]), Expected(torn))

\* Whether the request leaves the count of h above zero: h and all hosts that
\* its round visited before it were silent.
Blamed(h, r) ==
    \A g \in (IF h \in SyncHosts(r) THEN SyncHosts(r) ELSE MainHosts(r)) : g <= h => g \in Dead

\* Who the failure counters accuse, once a request is dealt with
\* (talkToBackend): never a host that answers, and a silent one exactly if no
\* host visited before it in the same talkToBackend answered, because
\* resp_list is shared by them.  So a silent host can have its count reset.
BlameRight ==
    pc \in {"wait", "read"} =>
        \A h \in Hosts :
            LET asked == {r \in 1 .. Len(replies) : h \in MainHosts(r) \cup SyncHosts(r)}
            IN  st_cont_fail[h] > 0 <=> asked # {} /\ Blamed(h, Max(asked))

\* Liveness: every request of the client is dealt with in the end, however the
\* bytes of requests and answers are cut into pieces on the way.
AllAnswered == <>(Len(replies) = Requests)
=============================================================================
