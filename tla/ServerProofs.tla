---------------------------- MODULE ServerProofs ----------------------------
(***************************************************************************)
(* Proofs about the wawa server, for every number of channels, set of      *)
(* descriptors, length of the list, set of packets and of results of       *)
(* send(): channel_map, the channels and the kernel's descriptors always   *)
(* agree, what a channel is about to be sent is addressed to it, and the   *)
(* rest of a packet that was sent in part is never forgotten.              *)
(*                                                                         *)
(* Good of ChannelsProofs and Tended are the inductive invariants.         *)
(***************************************************************************)
EXTENDS Server, ChannelsProofs

\* An action that makes the server state a good t makes st good.
LEMMA BecomeGood ==
    ASSUME Good(st), NEW t, Good(t), Become(t)
    PROVE  Good(st)'
<1>1. [f \in FD |-> <<>>] \in [FD -> Seq(Pkg)]
  OBVIOUS
<1>2. /\ st.channel' = t.channel /\ st.channel_map' = t.channel_map
      /\ st.open' = t.open
  BY DEF Become, st
<1>3. st' \in State
  BY <1>1 DEF Become, st, Good, State
<1>4. MapSound(st') /\ NoLeak(st') /\ Addressed(st') /\ Located(st')
  BY <1>2 DEF Good, MapSound, NoLeak, Addressed, Located
<1> QED BY <1>3, <1>4 DEF Good

\* main() starts the loop in a good state.
THEOREM Initialised == Init => Good(st)
<1>1. Good(Fresh("up"))
  BY FreshGood DEF RunState
<1>2. ASSUME Init PROVE st = Fresh("up")
  BY <1>2 DEF Init, st, Fresh
<1> QED BY <1>1, <1>2

\* Every callback preserves it.
THEOREM Inductive == Good(st) /\ [Next]_vars => Good(st)'
<1> SUFFICES ASSUME Good(st), [Next]_vars
             PROVE  Good(st)'
  OBVIOUS
<1>1. /\ st.channel = channel /\ st.open = open
      /\ Outcome \subseteq SendResult /\ PkgIn \subseteq Pkg
  BY OutcomeAssumption, PkgInAssumption DEF st
<1>2. open \subseteq FD
  BY <1>1 DEF Good, State
<1>3. CASE Accept
  <2>1. PICK f \in FD \ open :
           \/ Become(Fresh("segv"))
           \/ \E c \in Slot : FirstFree(st, c) /\ Become(accept_cb(st, f, c))
    BY <1>3 DEF Accept
  <2>2. CASE Become(Fresh("segv"))
    BY <2>2, FreshGood, BecomeGood DEF RunState
  <2>3. ASSUME NEW c \in Slot, FirstFree(st, c), Become(accept_cb(st, f, c))
        PROVE  Good(st)'
    BY <1>1, <2>3, AcceptGood, BecomeGood
  <2> QED BY <2>1, <2>2, <2>3
<1>4. ASSUME NEW c \in Slot, server_recv_cb(c)
      PROVE  Good(st)'
  <2>1. ASSUME Readable(c)
        PROVE  channel[c].fd \in FD /\ st.channel[c].fd \in FD
    BY <1>1, <1>2, <2>1 DEF Readable
  <2>2. CASE RecvRegister(c)
    <3>1. PICK p \in PkgIn, out \in Outcome :
             /\ Readable(c)
             /\ Become(handle_register_client_req(st, p, channel[c].fd, out))
      BY <2>2 DEF RecvRegister, Request
    <3> QED BY <1>1, <2>1, <3>1, RegisterGood, BecomeGood
  <2>3. CASE RecvChoose(c)
    <3>1. PICK p \in PkgIn, out \in Outcome, out2 \in Outcome :
             /\ Readable(c)
             /\ Become(handle_choose_server_req(st, p, channel[c].fd, out, out2))
      BY <2>3 DEF RecvChoose, Request
    <3> QED BY <1>1, <2>1, <3>1, ChooseGood, BecomeGood
  <2>4. CASE RecvUnhandled(c)
    BY <2>4 DEF RecvUnhandled, vars, st
  <2>5. CASE RecvForward(c)
    <3>1. PICK p \in PkgIn, out \in Outcome, out2 \in Outcome :
             Become(dispatch(st, p, channel[c].fd, out, out2))
      BY <2>5 DEF RecvForward
    <3> QED BY <1>1, <3>1, DispatchGood, BecomeGood
  <2>6. CASE RecvClosed(c)
    <3>1. PICK out \in Outcome : Readable(c) /\ Become(PeerClosed(st, c, out))
      BY <2>6 DEF RecvClosed
    <3> QED BY <1>1, <2>1, <3>1, PeerClosedGood, BecomeGood
  <2>7. CASE RecvError(c)
    <3>1. st.channel[c].fd \in FD /\ Become(free_channel(st, c))
      BY <1>1, <2>7 DEF RecvError, Good, Located
    <3> QED BY <3>1, FreeGood, BecomeGood
  <2> QED BY <1>4, <2>2, <2>3, <2>4, <2>5, <2>6, <2>7 DEF server_recv_cb
<1>5. ASSUME NEW c \in Slot, server_send_cb(c)
      PROVE  Good(st)'
  <2>1. st.channel[c].fd \in FD
    BY <1>1, <1>5
    DEF server_send_cb, Short, Done, Failed, Writable, Sending, Good, Located
  <2>2. CASE Short(c)
    <3>1. PICK out \in {"some", "again"} :
             /\ out = "some" => channel[c].len + 1 < PKG_UNITS
             /\ Become(SendShort(st, c, out))
      BY <2>2 DEF Short
    <3> QED BY <1>1, <2>1, <3>1, SendShortGood, BecomeGood
  <2>3. CASE Done(c)
    BY <2>1, <2>3, SendDoneGood, BecomeGood DEF Done
  <2>4. CASE Failed(c)
    <3>1. PICK out \in Outcome : Become(SendFail(st, c, out))
      BY <2>4 DEF Failed
    <3> QED BY <1>1, <2>1, <3>1, SendFailGood, BecomeGood
  <2> QED BY <1>5, <2>2, <2>3, <2>4 DEF server_send_cb
<1>6. CASE signal_cb
  BY <1>6, FreshGood, BecomeGood DEF signal_cb, RunState
<1>7. CASE UNCHANGED vars
  BY <1>7 DEF vars, st
<1> QED BY <1>3, <1>4, <1>5, <1>6, <1>7 DEF Next

\* The invariant holds in every reachable state.
THEOREM AlwaysGood == Spec => []Good(st)
BY Initialised, Inductive, PTL DEF Spec

\* The variables of the server keep their types: the array, both maps and the
\* contexts hold what the declarations of server.h say, whatever clients send.
THEOREM TypeCorrect == Spec => []TypeOK
<1>1. Good(st) => TypeOK
  BY DEF Good, State, st, TypeOK
<1> QED BY <1>1, AlwaysGood, PTL

\* channel_map.find never yields a channel of another connection or a freed one,
\* whatever the number of channels and connections and the results of send().
THEOREM ChannelMapCorrect == Spec => []ChannelMapSound
<1>1. Good(st) => ChannelMapSound
  BY DEF Good, MapSound, st, ChannelMapSound
<1> QED BY <1>1, AlwaysGood, PTL

\* accept_cb and free_channel leave no connection open that the map has lost, on
\* any path through the callbacks.
THEOREM DescriptorsCorrect == Spec => []NoDescriptorLeak
<1>1. Good(st) => NoDescriptorLeak
  BY DEF Good, NoLeak, st, NoDescriptorLeak
<1> QED BY <1>1, AlwaysGood, PTL

\* The notification that tells a raspi to start reaches that raspi or nobody,
\* although handle_choose_server_req does not set its head.fd.
THEOREM RepliesCorrect == Spec => []ReplyAddressed
<1>1. Good(st) => ReplyAddressed
  BY DEF Good, Addressed, st, ReplyAddressed
<1> QED BY <1>1, AlwaysGood, PTL

\* No watcher is ever started, and no source remembered, of a channel that has had
\* no connection, whatever has been freed meanwhile: descriptor 0 is left alone.
THEOREM TerminalIsSafe == Spec => []NeverTheTerminal
<1>1. Good(st) => NeverTheTerminal
  <2> SUFFICES ASSUME Good(st), NEW c \in Slot,
                      \/ channel[c].recvOn \/ channel[c].sendOn
                      \/ \E d \in Slot : channel[d].src = c
               PROVE  channel[c].fd # 0
    BY DEF NeverTheTerminal
  <2> QED BY NullNotFD, NullNotSlot DEF Good, Located, st
<1> QED BY <1>1, AlwaysGood, PTL

-----------------------------------------------------------------------------
(* A rest has its watcher.                                                 *)

\* If the stream to f waits for a rest, the connection's send watcher is started.
Watch(s, f) ==
    s.wire[f].due # ZeroPkg =>
        s.channel_map[f] # NULL /\ s.channel[s.channel_map[f]].sendOn

\* The invariant.
Tended(s) == \A f \in FD : Watch(s, f)

\* What every function does to it.  It is said of each descriptor apart, for
\* dispatch fails to watch the one it is about to free.
Tends(s, t) == \A f \in FD : Watch(s, f) => Watch(t, f)

\* One function after the other.
LEMMA TendsTwice ==
    ASSUME NEW s, NEW t, NEW u, Tends(s, t), Tends(t, u)
    PROVE  Tends(s, u)
BY DEF Tends

\* Overwriting a channel, unless its send watcher is stopped.
LEMMA PatchTends ==
    ASSUME NEW s, Good(s), NEW c \in Slot, NEW x, s.channel[c].sendOn => x.sendOn
    PROVE  Tends(s, [s EXCEPT !.channel[c] = x])
<1> DEFINE t == [s EXCEPT !.channel[c] = x]
<1>1. /\ t.channel = [s.channel EXCEPT ![c] = x]
      /\ t.channel_map = s.channel_map /\ t.wire = s.wire
  BY Fields
<1> HIDE DEF t
<1>2. \A d \in Slot : s.channel[d].sendOn => t.channel[d].sendOn
  BY <1>1, Parts
<1>3. \A f \in FD : s.channel_map[f] # NULL => s.channel_map[f] \in Slot
  BY Parts
<1>4. Tends(s, t)
  BY <1>1, <1>2, <1>3 DEF Tends, Watch
<1> QED BY <1>4 DEF t

\* Where the stream does not wait for a rest, the watcher may be stopped.
LEMMA PatchIdle ==
    ASSUME NEW s, Good(s), NEW c \in Slot, NEW x, s.channel[c].fd \in FD,
           s.wire[s.channel[c].fd].due = ZeroPkg
    PROVE  Tends(s, [s EXCEPT !.channel[c] = x])
<1> DEFINE t == [s EXCEPT !.channel[c] = x]
<1>1. /\ t.channel = [s.channel EXCEPT ![c] = x]
      /\ t.channel_map = s.channel_map /\ t.wire = s.wire
  BY Fields
<1> HIDE DEF t
<1>2. \A d \in Slot \ {c} : t.channel[d] = s.channel[d]
  BY <1>1, Parts
<1>3. \A f \in FD \ {s.channel[c].fd} :
        s.channel_map[f] # NULL => s.channel_map[f] \in Slot \ {c}
  BY Parts DEF Good, MapSound
<1>4. Tends(s, t)
  BY <1>1, <1>2, <1>3 DEF Tends, Watch
<1> QED BY <1>4 DEF t

\* free_channel: the stream it may leave without a watcher is gone.
LEMMA FreeTends ==
    ASSUME NEW s, Good(s), NEW c \in Slot, s.channel[c].fd \in FD
    PROVE  LET t == free_channel(s, c) IN
           Tends(s, t) /\ Watch(t, s.channel[c].fd)
<1> DEFINE t == free_channel(s, c)
           f == s.channel[c].fd
<1>1. /\ \E x : t.channel = [s.channel EXCEPT ![c] = x]
      /\ t.channel_map = [s.channel_map EXCEPT ![f] = NULL]
      /\ t.wire = [s.wire EXCEPT ![f] = Clean]
  BY DEF free_channel, Good, State
<1> HIDE DEF t
<1>2. t.wire[f].due = ZeroPkg
  BY <1>1 DEF Clean, Good, State
<1>3. ASSUME NEW g \in FD \ {f}
      PROVE  /\ t.wire[g] = s.wire[g] /\ t.channel_map[g] = s.channel_map[g]
             /\ s.channel_map[g] # NULL =>
                  t.channel[s.channel_map[g]] = s.channel[s.channel_map[g]]
  <2>1. t.wire[g] = s.wire[g] /\ t.channel_map[g] = s.channel_map[g]
    BY <1>1 DEF Good, State
  <2>2. s.channel_map[g] # NULL => s.channel_map[g] \in Slot \ {c}
    BY Parts DEF Good, MapSound
  <2> QED BY <1>1, <2>1, <2>2, Parts
<1>4. Tends(s, t)
  BY <1>2, <1>3 DEF Tends, Watch
<1> QED BY <1>2, <1>4 DEF t, Watch

\* A first send(), which only concerns the stream to f.
LEMMA BeginTends ==
    ASSUME NEW s, Good(s), NEW f \in FD, NEW p, NEW out
    PROVE  LET t == Begin(s, f, p, out) IN
           /\ \A g \in FD \ {f} : Watch(s, g) => Watch(t, g)
           /\ out = "all" => t.wire[f].due = ZeroPkg
<1> DEFINE t == Begin(s, f, p, out)
<1>1. /\ t.channel = s.channel /\ t.channel_map = s.channel_map
      /\ \E w : t.wire = [s.wire EXCEPT ![f] = w]
  BY DEF Begin, Write, Good, State
<1>2. out = "all" => t.wire[f] \in {Clean, Torn}
  BY DEF Begin, Write, Good, State
<1> HIDE DEF t
<1>3. \A g \in FD \ {f} : t.wire[g] = s.wire[g]
  BY <1>1 DEF Good, State
<1>4. out = "all" => t.wire[f].due = ZeroPkg
  BY <1>2 DEF Clean, Torn
<1> QED BY <1>1, <1>3, <1>4 DEF t, Watch

\* A rest that is sent, or a part of it: what is due then was due before.
LEMMA ContinueTends ==
    ASSUME NEW s, Good(s), NEW f \in FD, NEW p, NEW off, NEW out
    PROVE  LET t == Continue(s, f, p, off, out) IN
           /\ Tends(s, t)
           /\ out = "all" => t.wire[f].due = ZeroPkg
<1> DEFINE t == Continue(s, f, p, off, out)
<1>1. /\ t.channel = s.channel /\ t.channel_map = s.channel_map
      /\ \E w : t.wire = [s.wire EXCEPT ![f] = w]
  BY DEF Continue, Write, Good, State
<1>2. out = "all" => t.wire[f] \in {Clean, Torn}
  BY DEF Continue, Write, Good, State
<1>3. t.wire[f].due \in {s.wire[f].due, ZeroPkg}
  BY DEF Continue, Write, Good, State, Clean, Torn
<1> HIDE DEF t
<1>4. \A g \in FD \ {f} : t.wire[g] = s.wire[g]
  BY <1>1 DEF Good, State
<1>5. out = "all" => t.wire[f].due = ZeroPkg
  BY <1>2 DEF Clean, Torn
<1>6. Tends(s, t)
  BY <1>1, <1>3, <1>4 DEF Tends, Watch
<1> QED BY <1>5, <1>6 DEF t

\* response keeps a rest for server_send_cb, and starts its watcher.
LEMMA ResponseTends ==
    ASSUME NEW s, Good(s), NEW p \in Pkg, NEW out \in SendResult
    PROVE  Tends(s, response(s, p, out))
<1> DEFINE c == Find(s.channel_map, p.fd)
           t == Begin(s, p.fd, p, out)
           ch == s.channel[c]
           x == [ch EXCEPT !.len = IF out = "some" THEN 1 ELSE 0,
                           !.sendOn = IF out = "all" THEN ch.sendOn ELSE TRUE,
                           !.recvOn = IF out = "all" THEN TRUE ELSE ch.recvOn]
<1>1. CASE ~Usable(s, c)
  BY <1>1 DEF response, Tends
<1>2. CASE Usable(s, c)
  <2>1. /\ p.fd \in FD /\ c \in Slot /\ ch \in Channel /\ ch.fd = p.fd
        /\ s.channel_map[p.fd] = c /\ c # NULL
    BY <1>2, UsableFound DEF Usable
  <2>2. /\ Good(t)
        /\ t.channel = s.channel /\ t.channel_map = s.channel_map
    BY <2>1, BeginGood
  <2>3. /\ \A g \in FD \ {p.fd} : Watch(s, g) => Watch(t, g)
        /\ out = "all" => t.wire[p.fd].due = ZeroPkg
    BY <2>1, BeginTends
  <2>4. /\ out = "fail" => response(s, p, out) = free_channel(t, c)
        /\ out # "fail" => response(s, p, out) = [t EXCEPT !.channel[c] = x]
    BY <1>2 DEF response
  <2> HIDE DEF t
  <2>5. CASE out = "fail"
    <3>1. /\ Tends(t, free_channel(t, c))
          /\ Watch(free_channel(t, c), p.fd)
      BY <2>1, <2>2, FreeTends
    <3> QED BY <2>3, <2>4, <2>5, <3>1 DEF Tends
  <2>6. CASE out # "fail"
    <3>1. x.sendOn = IF out = "all" THEN ch.sendOn ELSE TRUE
      BY <2>1 DEF Channel
    <3> HIDE DEF c, x
    <3> DEFINE u == [t EXCEPT !.channel[c] = x]
    <3>2. Tends(t, u)
      BY <2>1, <2>2, <3>1, PatchTends
    <3>3. /\ u.channel = [t.channel EXCEPT ![c] = x]
          /\ u.channel_map = t.channel_map /\ u.wire = t.wire
      BY <2>1, <2>2, Fields
    <3> HIDE DEF u
    <3>4. u.channel[c] = x
      BY <2>1, <2>2, <3>3, Parts
    <3>5. Watch(u, p.fd)
      BY <2>1, <2>2, <2>3, <3>1, <3>3, <3>4 DEF Watch
    <3> QED BY <2>3, <2>4, <2>6, <3>2, <3>5 DEF Tends, u
  <2> QED BY <2>5, <2>6
<1> QED BY <1>1, <1>2

\* check_break_fd.
LEMMA BreakTends ==
    ASSUME NEW s, Good(s), NEW type, NEW f \in FD, NEW out \in SendResult
    PROVE  Tends(s, check_break_fd(s, type, f, out))
<1> DEFINE b == s.bridge_map[f]
           ntf == [cmd |-> "RESTART_CLIENT_NTF", fd |-> s.channel[b].fd, arg |-> 1]
           u == response(s, ntf, out)
           x == [u.channel[b] EXCEPT !.status = "ACTIVE"]
           v == [u EXCEPT !.channel[b] = x]
           t == [u EXCEPT !.channel[b].status = "ACTIVE", !.bridge_map[f] = NULL]
<1>1. CASE type # "CTYPE_REMOTE" \/ b = NULL
  BY <1>1 DEF check_break_fd, Tends
<1>2. CASE ~(type # "CTYPE_REMOTE" \/ b = NULL)
  <2>1. b \in Slot /\ s.channel[b] \in Channel
    BY <1>2 DEF Good, State
  <2>2. ntf \in Pkg
    BY <2>1, NullNotFD DEF Channel, Pkg, PKG_CMD_TYPE
  <2>3. check_break_fd(s, type, f, out) = t
    BY <1>2 DEF check_break_fd
  <2> HIDE DEF b, ntf
  <2>4. Good(u) /\ Tends(s, u)
    BY <2>2, ResponseGood, ResponseTends
  <2> HIDE DEF u
  <2>5. x.sendOn = u.channel[b].sendOn
    BY <2>1, <2>4 DEF Good, State, Channel
  <2>6. /\ t.channel = v.channel /\ t.channel_map = v.channel_map
        /\ t.wire = v.wire
    BY <2>1, <2>4 DEF Good, State
  <2> HIDE DEF x, t
  <2>7. Tends(u, v)
    BY <2>1, <2>4, <2>5, PatchTends
  <2> HIDE DEF v
  <2>8. Tends(s, v)
    BY <2>4, <2>7, TendsTwice
  <2> QED BY <2>3, <2>6, <2>8 DEF Tends, Watch
<1> QED BY <1>1, <1>2

\* Starting and stopping a receive watcher.
LEMMA RecvIoTends ==
    ASSUME NEW s, Good(s), NEW c \in Slot, NEW on
    PROVE  Tends(s, RecvIo(s, c, on))
<1> DEFINE x == [s.channel[c] EXCEPT !.recvOn = on]
<1>1. x.sendOn = s.channel[c].sendOn
  BY DEF Good, State, Channel
<1>2. RecvIo(s, c, on) = [s EXCEPT !.channel[c] = x]
  BY DEF RecvIo
<1> HIDE DEF x
<1> QED BY <1>1, <1>2, PatchTends

\* send() in server_send_cb, which sees to it that the sum fits.
LEMMA ContinueGood ==
    ASSUME NEW s, Good(s), NEW c \in Slot, s.channel[c].fd \in FD,
           NEW out \in SendResult,
           out = "some" => s.channel[c].len + 1 < PKG_UNITS
    PROVE  LET ch == s.channel[c]
               t == Continue(s, ch.fd, ch.pkg, ch.len, out)
           IN  Good(t) /\ t.channel = s.channel
<1> DEFINE ch == s.channel[c]
           fits == /\ ch.pkg # ZeroPkg /\ s.wire[ch.fd].due = ch.pkg
                   /\ s.wire[ch.fd].off = ch.len
<1>1. ch.fd \in FD /\ ch.len \in 0 .. PKG_UNITS /\ ch.pkg \in Pkg
  BY DEF Good, State, Channel
<1>2. fits => ch.len < PKG_UNITS
  BY DEF Good, State, Wire, PKG_UNITS
<1>3. Continue(s, ch.fd, ch.pkg, ch.len, out) =
        Write(s, ch.fd, ch.pkg, ch.len, fits, out)
  BY DEF Continue
<1> HIDE DEF ch, fits
<1>4. out = "some" => ch.len + 1 < PKG_UNITS
  BY DEF ch
<1> QED BY <1>1, <1>2, <1>3, <1>4, WriteGood DEF ch

\* server_recv_cb at the end of the stream.
LEMMA PeerClosedTends ==
    ASSUME NEW s, Good(s), NEW c \in Slot, s.channel[c].fd \in FD,
           NEW out \in SendResult
    PROVE  Tends(s, PeerClosed(s, c, out))
<1> DEFINE u == free_channel(s, c)
<1>1. Good(u) /\ Tends(s, u)
  BY FreeGood, FreeTends
<1>2. PeerClosed(s, c, out) =
        check_break_fd(u, s.channel[c].type, s.channel[c].fd, out)
  BY DEF PeerClosed
<1> HIDE DEF u
<1> QED BY <1>1, <1>2, BreakTends, TendsTwice

\* server_send_cb after an error.
LEMMA SendFailTends ==
    ASSUME NEW s, Good(s), NEW c \in Slot, s.channel[c].fd \in FD,
           NEW out \in SendResult
    PROVE  Tends(s, SendFail(s, c, out))
<1> DEFINE u == check_break_fd(s, s.channel[c].type, s.channel[c].fd, out)
<1>1. Good(u) /\ SameFds(s, u) /\ Tends(s, u)
  BY BreakGood, BreakTends
<1>2. SendFail(s, c, out) = free_channel(u, c)
  BY DEF SendFail
<1> HIDE DEF u
<1>3. Tends(u, free_channel(u, c))
  BY <1>1, FreeTends DEF SameFds
<1> QED BY <1>1, <1>2, <1>3, TendsTwice

\* server_send_cb when bytes are left: the watcher stays started.
LEMMA SendShortTends ==
    ASSUME NEW s, Good(s), NEW c \in Slot, s.channel[c].fd \in FD,
           NEW out \in {"some", "again"},
           out = "some" => s.channel[c].len + 1 < PKG_UNITS
    PROVE  Tends(s, SendShort(s, c, out))
<1> DEFINE ch == s.channel[c]
           u == Continue(s, ch.fd, ch.pkg, ch.len, out)
           x == [ch EXCEPT !.len = IF out = "some" THEN ch.len + 1 ELSE ch.len]
<1>1. Tends(s, u)
  BY ContinueTends
<1>2. Good(u) /\ u.channel = s.channel
  BY ContinueGood DEF SendResult
<1>3. SendShort(s, c, out) = [u EXCEPT !.channel[c] = x]
  BY DEF SendShort
<1>4. x.sendOn = u.channel[c].sendOn
  BY <1>2 DEF Good, State, Channel
<1> HIDE DEF u, x
<1>5. Tends(u, [u EXCEPT !.channel[c] = x])
  BY <1>2, <1>4, PatchTends
<1> QED BY <1>1, <1>3, <1>5, TendsTwice

\* server_send_cb when the rest is sent: the stream waits for nothing when the
\* watcher is stopped, also if what was sent was not the rest it waited for.
LEMMA SendDoneTends ==
    ASSUME NEW s, Good(s), NEW c \in Slot, s.channel[c].fd \in FD,
           s.channel[c].src # NULL
    PROVE  Tends(s, SendDone(s, c))
<1> DEFINE ch == s.channel[c]
           u == Continue(s, ch.fd, ch.pkg, ch.len, "all")
           x == [u.channel[c] EXCEPT !.len = PKG_UNITS, !.sendOn = FALSE,
                                     !.recvOn = TRUE]
           t == [u EXCEPT !.channel[c] = x]
<1>1. Tends(s, u) /\ u.wire[ch.fd].due = ZeroPkg
  BY ContinueTends
<1>2. Good(u) /\ u.channel = s.channel
  BY ContinueGood DEF SendResult
<1>3. ch \in Channel /\ ch.src \in Slot /\ s.channel[ch.src].fd \in FD
  BY DEF Good, State, Channel, Located
<1>4. SendDone(s, c) = RecvIo(t, ch.src, TRUE)
  BY DEF SendDone
<1>5. /\ x \in Channel
      /\ x.fd = ch.fd /\ x.pkg = ch.pkg /\ x.status = ch.status /\ x.src = ch.src
  BY <1>2, <1>3, Members DEF Channel
<1> HIDE DEF u, x
<1>6. Tends(u, t)
  BY <1>1, <1>2, PatchIdle
<1>7. Good(t)
  BY <1>2, <1>3, <1>5, PatchGood
<1> HIDE DEF t, ch
<1>8. Tends(t, RecvIo(t, ch.src, TRUE))
  BY <1>3, <1>7, RecvIoTends
<1> QED BY <1>1, <1>4, <1>6, <1>8, TendsTwice

\* accept_cb: to a descriptor that was not open nothing is due.
LEMMA AcceptTends ==
    ASSUME NEW s, Good(s), NEW f \in FD \ s.open, NEW c \in Slot, FirstFree(s, c),
           ~s.channel[c].recvOn, ~s.channel[c].sendOn
    PROVE  Tends(s, accept_cb(s, f, c))
<1> DEFINE t == accept_cb(s, f, c)
<1>1. s.channel_map[f] = NULL
  BY DEF Good, NoLeak
<1>2. \A g \in FD : s.channel_map[g] # c
  BY NullNotSlot DEF FirstFree, Good, MapSound
<1>3. /\ \E x : t.channel = [s.channel EXCEPT ![c] = x]
      /\ t.channel_map = [s.channel_map EXCEPT ![f] = c]
      /\ t.wire = s.wire
  BY <1>1 DEF accept_cb, get_free_channel, Insert, Good, State
<1> HIDE DEF t
<1>4. ASSUME NEW g \in FD \ {f}
      PROVE  /\ t.channel_map[g] = s.channel_map[g]
             /\ s.channel_map[g] # NULL =>
                  t.channel[s.channel_map[g]] = s.channel[s.channel_map[g]]
  <2>1. t.channel_map[g] = s.channel_map[g]
    BY <1>3, Parts
  <2>2. s.channel_map[g] # NULL => s.channel_map[g] \in Slot \ {c}
    BY <1>2, Parts
  <2> QED BY <1>3, <2>1, <2>2, Parts
<1>5. Tends(s, t)
  BY <1>1, <1>3, <1>4 DEF Tends, Watch
<1> QED BY <1>5 DEF t

\* dispatch.  Its send() may leave a rest, or, when it fails, a begun packet;
\* then the watcher is started, or the connection is closed.
LEMMA DispatchTends ==
    ASSUME NEW s, Good(s), NEW p \in Pkg, NEW srcfd,
           NEW out \in SendResult, NEW out2 \in SendResult
    PROVE  Tends(s, dispatch(s, p, srcfd, out, out2))
<1> DEFINE src == Find(s.channel_map, srcfd)
           dst == Find(s.channel_map, p.fd)
           u == Begin(s, p.fd, p, out)
           x == [u.channel[dst] EXCEPT !.pkg = p,
                                       !.len = IF out = "some" THEN 1 ELSE 0]
           t == [u EXCEPT !.channel[dst] = x]
           d == dispatch(s, p, srcfd, out, out2)
<1>1. CASE ~Usable(s, src) \/ ~Usable(s, dst)
  BY <1>1 DEF dispatch, Tends
<1>2. CASE Usable(s, src) /\ Usable(s, dst)
  <2>1. /\ p.fd \in FD /\ dst \in Slot /\ s.channel[dst] \in Channel
        /\ s.channel[dst].fd = p.fd /\ s.channel_map[p.fd] = dst
    BY <1>2, UsableFound
  <2>2. src \in Slot /\ s.channel[src].fd \in FD
    BY <1>2, UsableFound
  <2>3. /\ Good(u) /\ u.channel = s.channel /\ u.channel_map = s.channel_map
        /\ \A g \in FD \ {p.fd} : Watch(s, g) => Watch(u, g)
        /\ out = "all" => u.wire[p.fd].due = ZeroPkg
    BY <2>1, BeginGood, BeginTends
  <2>4. /\ out = "all" => d = RecvIo(SendIo(t, dst, FALSE), src, TRUE)
        /\ out = "fail" => d = free_channel(
              check_break_fd(t, t.channel[dst].type, t.channel[dst].fd, out2), dst)
        /\ out \notin {"all", "fail"} => d =
              [SendIo(RecvIo(t, src, FALSE), dst, TRUE) EXCEPT !.channel[dst].src = src]
    BY <1>2 DEF dispatch
  <2>5. /\ x \in Channel
        /\ x.fd = p.fd /\ x.pkg = p /\ x.status = u.channel[dst].status
        /\ x.src = u.channel[dst].src /\ x.sendOn = u.channel[dst].sendOn
    <3>1. (IF out = "some" THEN 1 ELSE 0) \in 0 .. PKG_UNITS
      BY Members
    <3> QED BY <2>1, <2>3, <3>1 DEF Channel
  <2> HIDE DEF u, src, dst, d, x
  <2>6. Good(t) /\ SameFds(u, t) /\ Tends(u, t)
    <3>1. x.src # NULL => u.channel[x.src].fd \in FD
      BY <2>1, <2>3, <2>5 DEF Good, Located
    <3> QED BY <2>1, <2>3, <2>5, <3>1, PatchGood, PatchTends
  <2>7. /\ t.channel[dst].fd = p.fd /\ t.channel[src].fd \in FD
        /\ t.channel_map = u.channel_map /\ t.wire = u.wire
    BY <2>1, <2>2, <2>3, <2>6, Fields DEF SameFds
  <2> HIDE DEF t
  <2>8. CASE out = "all"
    <3> DEFINE v == SendIo(t, dst, FALSE)
    <3>1. Tends(t, v)
      BY <2>1, <2>3, <2>6, <2>7, <2>8, PatchIdle DEF SendIo
    <3>2. Good(v)
      BY <2>1, <2>6, <2>7, IoGood
    <3>3. Watch(t, p.fd)
      BY <2>3, <2>7, <2>8 DEF Watch
    <3>4. d = RecvIo(v, src, TRUE)
      BY <2>4, <2>8
    <3> HIDE DEF v
    <3>5. Tends(v, d)
      BY <2>2, <3>2, <3>4, RecvIoTends
    <3> QED BY <2>3, <2>6, <3>1, <3>3, <3>5 DEF Tends, d
  <2>9. CASE out = "fail"
    <3> DEFINE v == check_break_fd(t, t.channel[dst].type, t.channel[dst].fd, out2)
    <3>1. Good(v) /\ SameFds(t, v) /\ Tends(t, v)
      BY <2>1, <2>6, <2>7, BreakGood, BreakTends
    <3>2. d = free_channel(v, dst)
      BY <2>4, <2>9
    <3> HIDE DEF v
    <3>3. v.channel[dst].fd = p.fd
      BY <2>1, <2>7, <3>1 DEF SameFds
    <3>4. Tends(v, d) /\ Watch(d, p.fd)
      BY <2>1, <3>1, <3>2, <3>3, FreeTends
    <3> QED BY <2>3, <2>6, <3>1, <3>4 DEF Tends, d
  <2>10. CASE out \notin {"all", "fail"}
    <3> DEFINE v == RecvIo(t, src, FALSE)
               w == SendIo(v, dst, TRUE)
               y == [w.channel[dst] EXCEPT !.src = src]
    <3>1. Good(v) /\ SameFds(t, v) /\ Tends(t, v)
      BY <2>2, <2>6, <2>7, IoGood, RecvIoTends
    <3>2. v.channel_map = t.channel_map
      BY <2>6 DEF RecvIo, Good, State
    <3> HIDE DEF v
    <3>3. v.channel[dst].fd = p.fd
      BY <2>1, <2>7, <3>1 DEF SameFds
    <3>4. Good(w) /\ Tends(v, w)
      <4> DEFINE z == [v.channel[dst] EXCEPT !.sendOn = TRUE]
      <4>1. w = [v EXCEPT !.channel[dst] = z] /\ z.sendOn
        BY <2>1, <3>1 DEF SendIo, Good, State, Channel
      <4>2. Good(w)
        BY <2>1, <3>1, <3>3, IoGood
      <4> HIDE DEF w, z
      <4> QED BY <2>1, <3>1, <4>1, <4>2, PatchTends
    <3>5. w.channel[dst].sendOn /\ w.channel_map = v.channel_map
      BY <2>1, <3>1 DEF SendIo, Good, State, Channel
    <3>6. d = [w EXCEPT !.channel[dst] = y]
      BY <2>4, <2>10 DEF v
    <3> HIDE DEF w
    <3>7. y.sendOn
      BY <2>1, <3>4, <3>5 DEF Good, State, Channel
    <3> HIDE DEF y
    <3>8. Tends(w, d)
      BY <2>1, <3>4, <3>6, <3>7, PatchTends
    <3>9. d.channel[dst] = y /\ d.channel_map = w.channel_map
      BY <2>1, <3>4, <3>6, Fields, Parts
    <3>10. d.channel_map[p.fd] = dst
      BY <2>1, <2>3, <2>7, <3>2, <3>5, <3>9
    <3>11. Watch(d, p.fd)
      BY <2>1, <3>7, <3>9, <3>10, NullNotSlot DEF Watch
    <3> QED BY <2>3, <2>6, <3>1, <3>4, <3>8, <3>11 DEF Tends, d
  <2> QED BY <2>8, <2>9, <2>10
<1> QED BY <1>1, <1>2

\* handle_register_client_req.
LEMMA RegisterTends ==
    ASSUME NEW s, Good(s), NEW p \in Pkg, NEW fd \in FD, NEW out \in SendResult
    PROVE  Tends(s, handle_register_client_req(s, p, fd, out))
<1> DEFINE c == Find(s.channel_map, fd)
           res == [cmd |-> "REGISTER_CLIENT_RES", fd |-> fd, arg |-> 0]
           x == [s.channel[c] EXCEPT !.type = ClientType(p), !.pkg = res]
           t == [s EXCEPT !.channel[c] = x]
           u == handle_register_client_req(s, p, fd, out)
<1>1. CASE ~Usable(s, c) \/ p.arg \notin {0, 1}
  BY <1>1 DEF handle_register_client_req, Tends
<1>2. CASE Usable(s, c) /\ p.arg \in {0, 1}
  <2>1. c \in Slot /\ s.channel[c] \in Channel /\ s.channel[c].fd = fd
    BY <1>2, UsableFound
  <2>2. res \in Pkg /\ res.fd = fd
    BY NullNotFD DEF Pkg, PKG_CMD_TYPE
  <2>3. u = t \/ u = response(t, res, out)
    BY <1>2 DEF handle_register_client_req
  <2> HIDE DEF c, res, u
  <2>4. /\ x \in Channel
        /\ x.fd = fd /\ x.pkg = res /\ x.status = s.channel[c].status
        /\ x.src = s.channel[c].src /\ x.sendOn = s.channel[c].sendOn
    <3>1. ClientType(p) \in CLIENT_TYPE
      BY DEF ClientType, CLIENT_TYPE
    <3> QED BY <2>1, <2>2, <3>1 DEF Channel
  <2> HIDE DEF x
  <2>5. x.src # NULL => s.channel[x.src].fd \in FD
    BY <2>1, <2>4 DEF Good, Located
  <2>6. Good(t) /\ Tends(s, t)
    BY <2>1, <2>2, <2>4, <2>5, PatchGood, PatchTends
  <2> HIDE DEF t
  <2>7. Tends(t, response(t, res, out))
    BY <2>2, <2>6, ResponseTends
  <2> QED BY <2>3, <2>6, <2>7, TendsTwice DEF u
<1> QED BY <1>1, <1>2

\* handle_choose_server_req.
LEMMA ChooseTends ==
    ASSUME NEW s, Good(s), NEW p \in Pkg, NEW fd \in FD,
           NEW out \in SendResult, NEW out2 \in SendResult
    PROVE  Tends(s, handle_choose_server_req(s, p, fd, out, out2))
<1> DEFINE c == Find(s.channel_map, fd)
           r == Find(s.channel_map, p.arg)
           res == [cmd |-> "CHOOSE_SERVER_RES", fd |-> fd, arg |-> 0]
           x == [s.channel[c] EXCEPT !.pkg = res]
           t0 == [s EXCEPT !.channel[c] = x]
           t1 == response(t0, res, out)
           ntf == [cmd |-> "START_SEND_DATA_NTF", fd |-> t1.channel[r].pkg.fd,
                   arg |-> fd]
           y == [t1.channel[r] EXCEPT !.pkg = ntf]
           t2 == [t1 EXCEPT !.channel[r] = y]
           t3 == response(t2, ntf, out2)
           t == handle_choose_server_req(s, p, fd, out, out2)
<1>1. CASE ~Usable(s, c) \/ ~Usable(s, r)
  BY <1>1 DEF handle_choose_server_req, Tends
<1>2. CASE Usable(s, c) /\ Usable(s, r)
  <2>1. c \in Slot /\ s.channel[c] \in Channel /\ s.channel[c].fd = fd
    BY <1>2, UsableFound
  <2>2. /\ s.channel_map[p.arg] = r /\ p.arg \in FD
        /\ r \in Slot /\ s.channel[r] \in Channel /\ s.channel[r].fd = p.arg
    BY <1>2, UsableFound
  <2>3. t = [t3 EXCEPT !.bridge_map = Insert(t3.bridge_map, fd, r)]
    BY <1>2 DEF handle_choose_server_req
  <2>4. res \in Pkg /\ res.fd = fd
    BY NullNotFD DEF Pkg, PKG_CMD_TYPE
  <2> HIDE DEF c, r, res, t
  <2>5. /\ x \in Channel
        /\ x.fd = fd /\ x.pkg = res /\ x.status = s.channel[c].status
        /\ x.src = s.channel[c].src /\ x.sendOn = s.channel[c].sendOn
    BY <2>1, <2>4 DEF Channel
  <2> HIDE DEF x
  <2>6. /\ Good(t0) /\ SameFds(s, t0) /\ Tends(s, t0)
        /\ t0.channel = [s.channel EXCEPT ![c] = x]
    <3>1. x.src # NULL => s.channel[x.src].fd \in FD
      BY <2>1, <2>5 DEF Good, Located
    <3> QED BY <2>1, <2>4, <2>5, <3>1, PatchGood, PatchTends
  <2>7. t0.channel[r].pkg.fd \in {0, p.arg}
    <3>1. s.channel[r].pkg.fd \in {0, p.arg}
      BY <2>2, NullNotSlot DEF Good, Addressed
    <3>2. t0.channel[r] = IF r = c THEN x ELSE s.channel[r]
      BY <2>1, <2>2, <2>6, Parts
    <3> QED BY <2>1, <2>2, <2>4, <2>5, <3>1, <3>2
  <2> HIDE DEF t0
  <2>8. Good(t1) /\ SameFds(t0, t1) /\ SamePkgs(t0, t1) /\ Tends(t0, t1)
    BY <2>4, <2>6, ResponseGood, ResponseTends
  <2> HIDE DEF t1
  <2>9. /\ t1.channel[r] \in Channel
        /\ t1.channel[r].fd = p.arg
        /\ t1.channel[r].pkg.fd \in {0, p.arg}
    BY <2>2, <2>6, <2>7, <2>8, Parts DEF SameFds, SamePkgs
  <2>10. ntf \in Pkg /\ ntf.fd \in {0, p.arg}
    BY <2>9, NullNotFD DEF Pkg, PKG_CMD_TYPE
  <2> HIDE DEF ntf
  <2>11. /\ y \in Channel
         /\ y.fd = p.arg /\ y.pkg = ntf /\ y.status = t1.channel[r].status
         /\ y.src = t1.channel[r].src /\ y.sendOn = t1.channel[r].sendOn
    BY <2>9, <2>10 DEF Channel
  <2> HIDE DEF y
  <2>12. y.src # NULL => t1.channel[y.src].fd \in FD
    BY <2>2, <2>8, <2>11 DEF Good, Located
  <2>13. Good(t2) /\ Tends(t1, t2)
    BY <2>2, <2>8, <2>9, <2>10, <2>11, <2>12, PatchGood, PatchTends
  <2> HIDE DEF t2
  <2>14. Good(t3) /\ Tends(t2, t3)
    BY <2>10, <2>13, ResponseGood, ResponseTends
  <2> HIDE DEF t3
  <2>15. /\ t.channel = t3.channel /\ t.channel_map = t3.channel_map
         /\ t.wire = t3.wire
    BY <2>3, <2>14 DEF Good, State
  <2>16. Tends(s, t3)
    BY <2>6, <2>8, <2>13, <2>14, TendsTwice
  <2> QED BY <2>15, <2>16 DEF Tends, Watch, t
<1> QED BY <1>1, <1>2

\* A process that has just started, or has ended.
LEMMA FreshTended == \A how : Tended(Fresh(how))
BY DEF Tended, Watch, Fresh, Clean

\* An action that makes the server state t makes st watched where t is.
LEMMA BecomeTended ==
    ASSUME Tended(st), NEW t, Tends(st, t) \/ Tended(t), Become(t)
    PROVE  Tended(st)'
<1>1. Tended(t)
  BY DEF Tends, Tended
<1>2. /\ st.channel' = t.channel /\ st.channel_map' = t.channel_map
      /\ st.wire' = t.wire
  BY DEF Become, st
<1> QED BY <1>1, <1>2 DEF Tended, Watch

\* Every callback keeps every rest watched.
LEMMA TendedNext == Good(st) /\ Tended(st) /\ [Next]_vars => Tended(st)'
<1> SUFFICES ASSUME Good(st), Tended(st), [Next]_vars
             PROVE  Tended(st)'
  OBVIOUS
<1>1. /\ st.channel = channel /\ st.open = open
      /\ Outcome \subseteq SendResult /\ PkgIn \subseteq Pkg
  BY OutcomeAssumption, PkgInAssumption DEF st
<1>2. open \subseteq FD
  BY <1>1 DEF Good, State
<1>3. ASSUME NEW how, Become(Fresh(how)) PROVE Tended(st)'
  BY <1>3, FreshTended, BecomeTended
<1>4. ASSUME NEW t, Tends(st, t), Become(t) PROVE Tended(st)'
  BY <1>4, BecomeTended
<1>5. CASE Accept
  <2>1. PICK f \in FD \ open :
           \/ Become(Fresh("segv"))
           \/ \E c \in Slot : FirstFree(st, c) /\ Become(accept_cb(st, f, c))
    BY <1>5 DEF Accept
  <2>2. ASSUME NEW c \in Slot, FirstFree(st, c), Become(accept_cb(st, f, c))
        PROVE  Tended(st)'
    <3>1. CASE st.channel[c].recvOn \/ st.channel[c].sendOn
      BY <1>3, <2>2, <3>1 DEF accept_cb
    <3>2. CASE ~st.channel[c].recvOn /\ ~st.channel[c].sendOn
      BY <1>1, <1>4, <2>2, <3>2, AcceptTends
    <3> QED BY <3>1, <3>2
  <2> QED BY <1>3, <2>1, <2>2
<1>6. ASSUME NEW c \in Slot, server_recv_cb(c)
      PROVE  Tended(st)'
  <2>1. ASSUME Readable(c)
        PROVE  channel[c].fd \in FD /\ st.channel[c].fd \in FD
    BY <1>1, <1>2, <2>1 DEF Readable
  <2>2. CASE RecvRegister(c)
    <3>1. PICK p \in PkgIn, out \in Outcome :
             /\ Readable(c)
             /\ Become(handle_register_client_req(st, p, channel[c].fd, out))
      BY <2>2 DEF RecvRegister, Request
    <3> QED BY <1>1, <1>4, <2>1, <3>1, RegisterTends
  <2>3. CASE RecvChoose(c)
    <3>1. PICK p \in PkgIn, out \in Outcome, out2 \in Outcome :
             /\ Readable(c)
             /\ Become(handle_choose_server_req(st, p, channel[c].fd, out, out2))
      BY <2>3 DEF RecvChoose, Request
    <3> QED BY <1>1, <1>4, <2>1, <3>1, ChooseTends
  <2>4. CASE RecvUnhandled(c)
    BY <2>4 DEF RecvUnhandled, vars, st
  <2>5. CASE RecvForward(c)
    <3>1. PICK p \in PkgIn, out \in Outcome, out2 \in Outcome :
             Become(dispatch(st, p, channel[c].fd, out, out2))
      BY <2>5 DEF RecvForward
    <3> QED BY <1>1, <1>4, <3>1, DispatchTends
  <2>6. CASE RecvClosed(c)
    <3>1. PICK out \in Outcome : Readable(c) /\ Become(PeerClosed(st, c, out))
      BY <2>6 DEF RecvClosed
    <3> QED BY <1>1, <1>4, <2>1, <3>1, PeerClosedTends
  <2>7. CASE RecvError(c)
    <3>1. st.channel[c].fd \in FD /\ Become(free_channel(st, c))
      BY <1>1, <2>7 DEF RecvError, Good, Located
    <3> QED BY <1>4, <3>1, FreeTends
  <2> QED BY <1>6, <2>2, <2>3, <2>4, <2>5, <2>6, <2>7 DEF server_recv_cb
<1>7. ASSUME NEW c \in Slot, server_send_cb(c)
      PROVE  Tended(st)'
  <2>1. st.channel[c].fd \in FD
    BY <1>1, <1>7
    DEF server_send_cb, Short, Done, Failed, Writable, Sending, Good, Located
  <2>2. CASE Short(c)
    <3>1. PICK out \in {"some", "again"} :
             /\ out = "some" => channel[c].len + 1 < PKG_UNITS
             /\ Become(SendShort(st, c, out))
      BY <2>2 DEF Short
    <3> QED BY <1>1, <1>4, <2>1, <3>1, SendShortTends
  <2>3. CASE Done(c)
    <3>1. CASE st.channel[c].src = NULL
      BY <1>3, <2>3, <3>1 DEF Done, SendDone
    <3>2. CASE st.channel[c].src # NULL
      BY <1>4, <2>1, <2>3, <3>2, SendDoneTends DEF Done
    <3> QED BY <3>1, <3>2
  <2>4. CASE Failed(c)
    <3>1. PICK out \in Outcome : Become(SendFail(st, c, out))
      BY <2>4 DEF Failed
    <3> QED BY <1>1, <1>4, <2>1, <3>1, SendFailTends
  <2> QED BY <1>7, <2>2, <2>3, <2>4 DEF server_send_cb
<1>8. CASE signal_cb
  BY <1>3, <1>8 DEF signal_cb
<1>9. CASE UNCHANGED vars
  BY <1>9 DEF vars, st, Tended, Watch
<1> QED BY <1>5, <1>6, <1>7, <1>8, <1>9 DEF Next

\* A packet that was begun is never forgotten: whatever send() returns, whoever
\* closes and whichever descriptor is used again, the stream that waits for a rest
\* has its send watcher started.
THEOREM RestsAreWatched == Spec => []RestWatched
<1>1. Init => Tended(st)
  <2>1. ASSUME Init PROVE st = Fresh("up")
    BY <2>1 DEF Init, st, Fresh
  <2> QED BY <2>1, FreshTended
<1>2. Good(st) /\ Tended(st) => RestWatched
  BY DEF Good, State, Tended, Watch, st, RestWatched
<1> QED BY <1>1, <1>2, TendedNext, AlwaysGood, PTL DEF Spec
=============================================================================
