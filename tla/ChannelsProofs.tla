---------------------------- MODULE ChannelsProofs ----------------------------
(***************************************************************************)
(* Lemmas about the functions of the wawa server, for every number of      *)
(* channels, set of descriptors, length of the list, packet and result of  *)
(* send().  There is one lemma per function of the code, Good before and   *)
(* Good after, so that the proof of a callback is the composition of the   *)
(* functions it calls; and one more, Follows, for send() while it takes a  *)
(* packet whole or fails.  ServerProofs and WawaProofs are built on them.  *)
(***************************************************************************)
EXTENDS Channels, TLAPS

\* The invariants of Server as predicates of a server state.
MapSound(s) ==
    \A f \in FD : s.channel_map[f] # NULL =>
        /\ s.channel[s.channel_map[f]].fd = f
        /\ s.channel[s.channel_map[f]].status = "ACTIVE"

NoLeak(s) == \A f \in FD : f \in s.open <=> s.channel_map[f] # NULL

Addressed(s) ==
    \A f \in FD : s.channel_map[f] # NULL =>
        s.channel[s.channel_map[f]].pkg.fd \in {0, f}

\* What makes them inductive: a watcher is started, and a source is remembered,
\* only for a channel that has had a connection, so that its fd is in FD and
\* free_channel(c), called on any of them, takes some descriptor out of the map
\* and out of the kernel, never a stray one.
Located(s) ==
    \A c \in Slot :
        /\ s.channel[c].recvOn \/ s.channel[c].sendOn => s.channel[c].fd \in FD
        /\ s.channel[c].src # NULL => s.channel[s.channel[c].src].fd \in FD

\* The inductive invariant.
Good(s) ==
    s \in State /\ MapSound(s) /\ NoLeak(s) /\ Addressed(s) /\ Located(s)

\* What a step that leaves the map and the descriptors alone may do to channel
\* c: it may write packets that are addressed to c or to nobody, start watchers
\* of located channels, and turn an inactive channel active.
Keeps(s, t, c) ==
    /\ t.channel[c].fd = s.channel[c].fd
    /\ t.channel[c].status \in {s.channel[c].status, "ACTIVE"}
    /\ \/ t.channel[c].pkg = s.channel[c].pkg
       \/ t.channel[c].pkg.fd \in {0, s.channel[c].fd}
    /\ t.channel[c].recvOn \/ t.channel[c].sendOn => s.channel[c].fd \in FD
    /\ t.channel[c].src # NULL => s.channel[t.channel[c].src].fd \in FD

\* No channel changes its descriptor, none its packet to be sent.
SameFds(s, t) == \A c \in Slot : t.channel[c].fd = s.channel[c].fd

SamePkgs(s, t) == \A c \in Slot : t.channel[c].pkg = s.channel[c].pkg

\* The null pointer is no channel.
LEMMA NullNotSlot == NULL \notin Slot
  BY ChannelMaxAssumption DEF NULL, Slot

\* Head.fd = 0 names the server, and no descriptor is negative.
LEMMA NullNotFD == 0 \notin FD /\ NULL \notin FD /\ FD \subseteq Int
  BY FDAssumption DEF NULL

\* The constants that functions of the server store have their types.
LEMMA Members ==
    /\ "ACTIVE" \in CHANNEL_STATUS /\ "NON_ACTIVE" \in CHANNEL_STATUS
    /\ 0 \in 0 .. PKG_UNITS /\ 1 \in 0 .. PKG_UNITS /\ PKG_UNITS \in 0 .. PKG_UNITS
    /\ ZeroPkg \in Pkg
    /\ Clean \in Wire /\ Torn \in Wire
    /\ ZeroChannel \in Channel
<1>1. ZeroPkg \in Pkg
  BY DEF ZeroPkg, Pkg, PKG_CMD_TYPE
<1>2. Clean \in Wire /\ Torn \in Wire
  BY <1>1 DEF Clean, Torn, Wire, PKG_UNITS
<1>3. ZeroChannel \in Channel
  <2>1. /\ 0 \in 0 .. PKG_UNITS
        /\ "NON_ACTIVE" \in CHANNEL_STATUS /\ "CTYPE_RASPI" \in CLIENT_TYPE
    BY DEF PKG_UNITS, CHANNEL_STATUS, CLIENT_TYPE
  <2> QED BY <1>1, <2>1 DEF ZeroChannel, Channel
<1> QED BY <1>1, <1>2, <1>3 DEF CHANNEL_STATUS, PKG_UNITS

\* Whatever only does to each channel what Keeps allows preserves the invariant:
\* the case of every function but get_free_channel and free_channel.
LEMMA KeepsGood ==
    ASSUME NEW s, Good(s), NEW t \in State,
           t.channel_map = s.channel_map, t.open = s.open,
           \A c \in Slot : Keeps(s, t, c)
    PROVE  Good(t)
<1>1. MapSound(t)
  <2> SUFFICES ASSUME NEW f \in FD, t.channel_map[f] # NULL
               PROVE  /\ t.channel[t.channel_map[f]].fd = f
                      /\ t.channel[t.channel_map[f]].status = "ACTIVE"
    BY DEF MapSound
  <2>1. t.channel_map[f] \in Slot
    BY DEF State
  <2>2. /\ s.channel[t.channel_map[f]].fd = f
        /\ s.channel[t.channel_map[f]].status = "ACTIVE"
    BY DEF Good, MapSound
  <2> QED BY <2>1, <2>2 DEF Keeps
<1>2. NoLeak(t)
  BY DEF Good, NoLeak
<1>3. Addressed(t)
  <2> SUFFICES ASSUME NEW f \in FD, t.channel_map[f] # NULL
               PROVE  t.channel[t.channel_map[f]].pkg.fd \in {0, f}
    BY DEF Addressed
  <2>1. t.channel_map[f] \in Slot
    BY DEF State
  <2>2. s.channel[t.channel_map[f]].fd = f
    BY DEF Good, MapSound
  <2>3. s.channel[t.channel_map[f]].pkg.fd \in {0, f}
    BY DEF Good, Addressed
  <2> QED BY <2>1, <2>2, <2>3 DEF Keeps
<1>4. Located(t)
  <2> SUFFICES ASSUME NEW c \in Slot
               PROVE  /\ t.channel[c].recvOn \/ t.channel[c].sendOn =>
                           t.channel[c].fd \in FD
                      /\ t.channel[c].src # NULL =>
                           t.channel[t.channel[c].src].fd \in FD
    BY DEF Located
  <2>1. t.channel[c].src \in Slot \cup {NULL}
    BY DEF State, Channel
  <2> QED BY <2>1 DEF Keeps
<1> QED BY <1>1, <1>2, <1>3, <1>4 DEF Good

\* A channel that is not touched is one of those.
LEMMA KeepsSelf ==
    ASSUME NEW s, Good(s), NEW c \in Slot
    PROVE  Keeps(s, s, c)
BY DEF Good, Keeps, Located

\* Overwriting one channel by x, the shape of nearly every assignment of the
\* code, with what a caller has to know about x.
LEMMA PatchGood ==
    ASSUME NEW s, Good(s), NEW c \in Slot, NEW x \in Channel,
           x.fd = s.channel[c].fd,
           x.status \in {s.channel[c].status, "ACTIVE"},
           x.pkg = s.channel[c].pkg \/ x.pkg.fd \in {0, x.fd},
           x.recvOn \/ x.sendOn => x.fd \in FD,
           x.src # NULL => s.channel[x.src].fd \in FD
    PROVE  LET t == [s EXCEPT !.channel[c] = x] IN
           /\ Good(t)
           /\ t.channel = [s.channel EXCEPT ![c] = x]
           /\ t.channel_map = s.channel_map /\ t.open = s.open
           /\ t.bridge_map = s.bridge_map /\ t.wire = s.wire
           /\ SameFds(s, t)
<1> DEFINE t == [s EXCEPT !.channel[c] = x]
<1>1. t \in State
  BY DEF Good, State
<1>2. /\ t.channel = [s.channel EXCEPT ![c] = x]
      /\ t.channel_map = s.channel_map /\ t.open = s.open
      /\ t.bridge_map = s.bridge_map /\ t.wire = s.wire
  BY DEF Good, State
<1>3. /\ t.channel[c] = x
      /\ \A d \in Slot \ {c} : t.channel[d] = s.channel[d]
  BY <1>2 DEF Good, State
<1> HIDE DEF t
<1>4. \A d \in Slot : Keeps(s, t, d)
  BY <1>3, KeepsSelf DEF Keeps
<1>5. SameFds(s, t)
  BY <1>3 DEF SameFds
<1> QED BY <1>1, <1>2, <1>4, <1>5, KeepsGood DEF t

\* send() changes the wire and nothing of the server's own.
LEMMA WriteGood ==
    ASSUME NEW s, Good(s), NEW f \in FD, NEW p \in Pkg,
           NEW off \in 0 .. PKG_UNITS, NEW fits, NEW out \in SendResult,
           out = "some" => off + 1 < PKG_UNITS,
           fits => off < PKG_UNITS
    PROVE  LET t == Write(s, f, p, off, fits, out) IN
           /\ Good(t)
           /\ t.channel = s.channel /\ t.channel_map = s.channel_map
           /\ t.bridge_map = s.bridge_map /\ t.open = s.open
<1> DEFINE t == Write(s, f, p, off, fits, out)
<1>1. /\ t \in State
      /\ t.channel = s.channel /\ t.channel_map = s.channel_map
      /\ t.bridge_map = s.bridge_map /\ t.open = s.open
  <2>1. CASE s.wire[f].torn \/ ~fits
    BY <2>1, Members DEF Write, Good, State
  <2>2. CASE ~(s.wire[f].torn \/ ~fits)
    <3>1. CASE out = "all"
      <4>1. Append(s.inbox[f], p) \in Seq(Pkg)
        BY DEF Good, State
      <4> QED BY <2>2, <3>1, <4>1, Members DEF Write, Good, State
    <3>2. CASE out = "some"
      <4>1. [due |-> p, off |-> off + 1, torn |-> FALSE] \in Wire
        BY <3>2 DEF Wire, PKG_UNITS
      <4> QED BY <2>2, <3>2, <4>1 DEF Write, Good, State
    <3>3. CASE out # "all" /\ out # "some"
      <4>1. [due |-> p, off |-> off, torn |-> FALSE] \in Wire
        BY <2>2 DEF Wire, PKG_UNITS
      <4> QED BY <2>2, <3>3, <4>1 DEF Write, Good, State
    <3> QED BY <3>1, <3>2, <3>3
  <2> QED BY <2>1, <2>2
<1> HIDE DEF t
<1>2. \A c \in Slot : Keeps(s, t, c)
  BY <1>1, KeepsSelf DEF Keeps
<1> QED BY <1>1, <1>2, KeepsGood DEF t

\* free_channel preserves the invariant on every channel that is located: also
\* on one that was freed before and whose descriptor a newer channel uses.  It is
\* that channel's entry and descriptor that go then, both of them.
LEMMA FreeGood ==
    ASSUME NEW s, Good(s), NEW c \in Slot, s.channel[c].fd \in FD
    PROVE  LET t == free_channel(s, c) IN
           /\ Good(t)
           /\ SameFds(s, t) /\ SamePkgs(s, t)
           /\ t.bridge_map = s.bridge_map
<1> DEFINE t == free_channel(s, c)
           f == s.channel[c].fd
           x == [s.channel[c] EXCEPT !.status = "NON_ACTIVE", !.len = 0,
                                     !.recvOn = FALSE, !.sendOn = FALSE]
<1>1. /\ t.channel = [s.channel EXCEPT ![c] = x]
      /\ t.channel_map = [s.channel_map EXCEPT ![f] = NULL]
      /\ t.open = s.open \ {f}
      /\ t.bridge_map = s.bridge_map
  BY DEF free_channel, Good, State
<1>2. s.channel[c] \in Channel
  BY DEF Good, State
<1>3. x \in Channel
  BY <1>2, Members DEF Channel
<1>4. t \in State
  <2>1. t = [s EXCEPT !.channel[c] = x, !.channel_map[f] = NULL,
                      !.open = s.open \ {f}, !.wire[f] = Clean, !.inbox[f] = <<>>]
    BY DEF free_channel
  <2>2. <<>> \in Seq(Pkg)
    OBVIOUS
  <2> HIDE DEF t, x, f
  <2> QED BY <1>3, <2>1, <2>2, Members DEF Good, State
<1>5. /\ x.fd = s.channel[c].fd /\ x.pkg = s.channel[c].pkg
      /\ x.src = s.channel[c].src /\ ~x.recvOn /\ ~x.sendOn
  BY <1>2 DEF Channel
<1> HIDE DEF x, t
<1>6. /\ t.channel[c] = x
      /\ \A d \in Slot \ {c} : t.channel[d] = s.channel[d]
  BY <1>1 DEF Good, State
<1>7. SameFds(s, t) /\ SamePkgs(s, t)
  BY <1>5, <1>6 DEF SameFds, SamePkgs
<1>8. \A g \in FD : t.channel_map[g] # NULL =>
          /\ g # f
          /\ t.channel_map[g] = s.channel_map[g]
          /\ t.channel_map[g] \in Slot \ {c}
  BY <1>1, NullNotSlot DEF Good, State, MapSound
<1>9. MapSound(t)
  BY <1>6, <1>8 DEF Good, MapSound
<1>10. NoLeak(t)
  BY <1>1 DEF Good, State, NoLeak
<1>11. Addressed(t)
  BY <1>6, <1>8 DEF Good, Addressed
<1>12. Located(t)
  <2>1. \A d \in Slot : s.channel[d].src \in Slot \cup {NULL}
    BY DEF Good, State, Channel
  <2> QED BY <1>5, <1>6, <1>7, <2>1 DEF Good, Located, SameFds
<1> QED BY <1>1, <1>4, <1>7, <1>9, <1>10, <1>11, <1>12 DEF Good, t

\* What a successful channel_map.find followed by the status test yields.
LEMMA UsableFound ==
    ASSUME NEW s, Good(s), NEW f, Usable(s, Find(s.channel_map, f))
    PROVE  LET c == Find(s.channel_map, f) IN
           /\ f \in FD
           /\ c \in Slot
           /\ s.channel[c] \in Channel
           /\ s.channel[c].fd = f
           /\ s.channel_map[f] = c
BY DEF Good, State, MapSound, Usable, Find

\* A first send() of a packet.
LEMMA BeginGood ==
    ASSUME NEW s, Good(s), NEW f \in FD, NEW p \in Pkg, NEW out \in SendResult
    PROVE  LET t == Begin(s, f, p, out) IN
           /\ Good(t)
           /\ t.channel = s.channel /\ t.channel_map = s.channel_map
           /\ t.bridge_map = s.bridge_map /\ t.open = s.open
<1>1. 0 \in 0 .. PKG_UNITS /\ 0 + 1 < PKG_UNITS /\ 0 < PKG_UNITS
  BY DEF PKG_UNITS
<1> QED BY <1>1, WriteGood DEF Begin

\* response, for any packet whatsoever: it does not touch sendCtx.pkg, and the
\* channel it frees is one that the map finds.
LEMMA ResponseGood ==
    ASSUME NEW s, Good(s), NEW p \in Pkg, NEW out \in SendResult
    PROVE  LET t == response(s, p, out) IN
           /\ Good(t)
           /\ SameFds(s, t) /\ SamePkgs(s, t)
           /\ t.bridge_map = s.bridge_map
<1> DEFINE c == Find(s.channel_map, p.fd)
           t == Begin(s, p.fd, p, out)
           ch == s.channel[c]
           x == [ch EXCEPT !.len = IF out = "some" THEN 1 ELSE 0,
                           !.sendOn = IF out = "all" THEN ch.sendOn ELSE TRUE,
                           !.recvOn = IF out = "all" THEN TRUE ELSE ch.recvOn]
<1>1. CASE ~Usable(s, c)
  BY <1>1 DEF response, SameFds, SamePkgs
<1>2. CASE Usable(s, c)
  <2>1. /\ p.fd \in FD /\ c \in Slot /\ s.channel[c] \in Channel
        /\ s.channel[c].fd = p.fd
    BY <1>2, UsableFound
  <2>2. /\ Good(t)
        /\ t.channel = s.channel /\ t.channel_map = s.channel_map
        /\ t.bridge_map = s.bridge_map /\ t.open = s.open
    BY <2>1, BeginGood
  <2>3. CASE out = "fail"
    <3>1. response(s, p, out) = free_channel(t, c)
      BY <1>2, <2>3 DEF response
    <3>2. t.channel[c].fd \in FD
      BY <2>1, <2>2
    <3> HIDE DEF c, t
    <3> QED BY <2>1, <2>2, <3>1, <3>2, FreeGood DEF SameFds, SamePkgs
  <2>4. CASE out # "fail"
    <3>1. response(s, p, out) = [t EXCEPT !.channel[c] = x]
      BY <1>2, <2>4 DEF response
    <3> HIDE DEF c, t
    <3>2. x \in Channel
      <4>1. (IF out = "some" THEN 1 ELSE 0) \in 0 .. PKG_UNITS
        BY Members
      <4> QED BY <2>1, <2>2, <4>1 DEF Channel
    <3>3. /\ x.fd = p.fd /\ x.status = t.channel[c].status
          /\ x.pkg = t.channel[c].pkg /\ x.src = t.channel[c].src
      BY <2>1, <2>2 DEF Channel
    <3>4. x.src # NULL => t.channel[x.src].fd \in FD
      BY <2>1, <2>2, <3>3 DEF Good, Located
    <3> HIDE DEF x
    <3>5. /\ Good([t EXCEPT !.channel[c] = x])
          /\ [t EXCEPT !.channel[c] = x].channel = [t.channel EXCEPT ![c] = x]
          /\ [t EXCEPT !.channel[c] = x].bridge_map = t.bridge_map
          /\ SameFds(t, [t EXCEPT !.channel[c] = x])
      BY <2>1, <2>2, <3>2, <3>3, <3>4, PatchGood
    <3>6. SamePkgs(t, [t EXCEPT !.channel[c] = x])
      BY <2>1, <2>2, <3>3, <3>5 DEF SamePkgs, Good, State
    <3> QED BY <2>2, <3>1, <3>5, <3>6 DEF SameFds, SamePkgs
  <2> QED BY <2>3, <2>4
<1> QED BY <1>1, <1>2

\* check_break_fd, although it turns the raspi's channel ACTIVE when response
\* has just freed it: the map has no entry for that channel any more.
LEMMA BreakGood ==
    ASSUME NEW s, Good(s), NEW type, NEW f \in FD, NEW out \in SendResult
    PROVE  LET t == check_break_fd(s, type, f, out) IN
           Good(t) /\ SameFds(s, t)
<1> DEFINE b == s.bridge_map[f]
           ntf == [cmd |-> "RESTART_CLIENT_NTF", fd |-> s.channel[b].fd, arg |-> 1]
           u == response(s, ntf, out)
           t == [u EXCEPT !.channel[b].status = "ACTIVE", !.bridge_map[f] = NULL]
<1>1. CASE type # "CTYPE_REMOTE" \/ b = NULL
  BY <1>1 DEF check_break_fd, SameFds
<1>2. CASE ~(type # "CTYPE_REMOTE" \/ b = NULL)
  <2>1. b \in Slot /\ s.channel[b] \in Channel
    BY <1>2 DEF Good, State
  <2>2. s.channel[b].fd \in Int
    BY <2>1, NullNotFD DEF Channel
  <2>3. ntf \in Pkg
    BY <2>2 DEF Pkg, PKG_CMD_TYPE
  <2>4. check_break_fd(s, type, f, out) = t
    BY <1>2 DEF check_break_fd
  <2> HIDE DEF b, ntf
  <2>5. Good(u) /\ SameFds(s, u)
    BY <2>3, ResponseGood
  <2> HIDE DEF u
  <2>6. t \in State /\ t.channel_map = u.channel_map /\ t.open = u.open
    <3>1. [u.channel[b] EXCEPT !.status = "ACTIVE"] \in Channel
      BY <2>1, <2>5, Members DEF Good, State, Channel
    <3> QED BY <2>1, <2>5, <3>1, NullNotSlot DEF Good, State
  <2>7. t.channel = [u.channel EXCEPT ![b] = [@ EXCEPT !.status = "ACTIVE"]]
    BY <2>1, <2>5 DEF Good, State
  <2> HIDE DEF t
  <2>8. \A d \in Slot : Keeps(u, t, d) /\ t.channel[d].fd = u.channel[d].fd
    <3> SUFFICES ASSUME NEW d \in Slot
                 PROVE  Keeps(u, t, d) /\ t.channel[d].fd = u.channel[d].fd
      OBVIOUS
    <3>1. CASE d = b
      BY <2>5, <2>7, <3>1 DEF Good, State, Channel, Keeps, Located
    <3>2. CASE d # b
      BY <2>5, <2>7, <3>2 DEF Good, State, Keeps, Located
    <3> QED BY <3>1, <3>2
  <2> QED BY <2>4, <2>5, <2>6, <2>8, KeepsGood DEF SameFds
<1> QED BY <1>1, <1>2

\* server_recv_cb at the end of the stream: free first, then break the bridge.
LEMMA PeerClosedGood ==
    ASSUME NEW s, Good(s), NEW c \in Slot, s.channel[c].fd \in FD,
           NEW out \in SendResult
    PROVE  Good(PeerClosed(s, c, out))
BY FreeGood, BreakGood DEF PeerClosed

\* server_send_cb after an error: break the bridge first, then free, possibly a
\* channel the notification has just freed.
LEMMA SendFailGood ==
    ASSUME NEW s, Good(s), NEW c \in Slot, s.channel[c].fd \in FD,
           NEW out \in SendResult
    PROVE  Good(SendFail(s, c, out))
<1> DEFINE u == check_break_fd(s, s.channel[c].type, s.channel[c].fd, out)
<1>1. Good(u) /\ SameFds(s, u)
  BY BreakGood
<1>2. SendFail(s, c, out) = free_channel(u, c)
  BY DEF SendFail
<1> HIDE DEF u
<1> QED BY <1>1, <1>2, FreeGood DEF SameFds

\* server_send_cb when bytes are left.
LEMMA SendShortGood ==
    ASSUME NEW s, Good(s), NEW c \in Slot, s.channel[c].fd \in FD,
           NEW out \in {"some", "again"},
           out = "some" => s.channel[c].len + 1 < PKG_UNITS
    PROVE  Good(SendShort(s, c, out))
<1> DEFINE ch == s.channel[c]
           u == Continue(s, ch.fd, ch.pkg, ch.len, out)
           n == IF out = "some" THEN ch.len + 1 ELSE ch.len
           x == [ch EXCEPT !.len = n]
<1>1. ch \in Channel
  BY DEF Good, State
<1>2. ch.len \in 0 .. PKG_UNITS /\ ch.pkg \in Pkg
  BY <1>1 DEF Channel
<1>3. s.wire[ch.fd] \in Wire
  BY DEF Good, State
<1>4. s.wire[ch.fd].off = ch.len => ch.len < PKG_UNITS
  BY <1>3 DEF Wire, PKG_UNITS
<1>5. out \in SendResult
  BY DEF SendResult
<1>6. /\ Good(u)
      /\ u.channel = s.channel
  <2> DEFINE fits == /\ ch.pkg # ZeroPkg /\ s.wire[ch.fd].due = ch.pkg
                    /\ s.wire[ch.fd].off = ch.len
  <2>1. u = Write(s, ch.fd, ch.pkg, ch.len, fits, out)
    BY DEF Continue
  <2>2. fits => ch.len < PKG_UNITS
    BY <1>4
  <2>3. out = "some" => ch.len + 1 < PKG_UNITS
    OBVIOUS
  <2>4. ch.fd \in FD
    OBVIOUS
  <2> HIDE DEF u, fits, ch
  <2> QED BY <1>2, <1>5, <2>1, <2>2, <2>3, <2>4, WriteGood
<1>7. n \in 0 .. PKG_UNITS
  BY <1>2 DEF PKG_UNITS
<1>8. SendShort(s, c, out) = [u EXCEPT !.channel[c] = x]
  BY DEF SendShort
<1> HIDE DEF u, n
<1>9. /\ x \in Channel
      /\ x.fd = ch.fd /\ x.pkg = ch.pkg /\ x.status = ch.status /\ x.src = ch.src
      /\ x.recvOn = ch.recvOn /\ x.sendOn = ch.sendOn
  BY <1>1, <1>7 DEF Channel
<1>10. x.src # NULL => u.channel[x.src].fd \in FD
  BY <1>6, <1>9 DEF Good, Located
<1> HIDE DEF x
<1> QED BY <1>6, <1>8, <1>9, <1>10, PatchGood

\* A process that has just started, or has ended, satisfies the invariant.
LEMMA FreshGood ==
    ASSUME NEW how \in RunState
    PROVE  Good(Fresh(how))
<1> DEFINE t == Fresh(how)
<1>1. t \in State
  <2>1. <<>> \in Seq(Pkg)
    OBVIOUS
  <2> QED BY <2>1, Members DEF Fresh, State
<1>2. /\ \A c \in Slot : t.channel[c] = ZeroChannel
      /\ \A f \in FD : t.channel_map[f] = NULL
      /\ t.open = {}
  BY DEF Fresh
<1> HIDE DEF t
<1>3. ~ZeroChannel.recvOn /\ ~ZeroChannel.sendOn /\ ZeroChannel.src = NULL
  BY DEF ZeroChannel
<1>4. MapSound(t) /\ NoLeak(t) /\ Addressed(t) /\ Located(t)
  BY <1>2, <1>3 DEF MapSound, NoLeak, Addressed, Located
<1> QED BY <1>1, <1>4 DEF Good, t

\* Starting and stopping the watchers of a located channel.
LEMMA IoGood ==
    ASSUME NEW s, Good(s), NEW c \in Slot, s.channel[c].fd \in FD, NEW on \in BOOLEAN
    PROVE  /\ Good(RecvIo(s, c, on)) /\ SameFds(s, RecvIo(s, c, on))
           /\ Good(SendIo(s, c, on)) /\ SameFds(s, SendIo(s, c, on))
<1> DEFINE ch == s.channel[c]
           x == [ch EXCEPT !.recvOn = on]
           y == [ch EXCEPT !.sendOn = on]
<1>1. ch \in Channel
  BY DEF Good, State
<1>2. ch.src # NULL => s.channel[ch.src].fd \in FD
  BY DEF Good, Located
<1>3. /\ RecvIo(s, c, on) = [s EXCEPT !.channel[c] = x]
      /\ SendIo(s, c, on) = [s EXCEPT !.channel[c] = y]
  BY DEF RecvIo, SendIo
<1>4. /\ x \in Channel /\ x.fd = ch.fd /\ x.status = ch.status
      /\ x.pkg = ch.pkg /\ x.src = ch.src
  BY <1>1 DEF Channel
<1>5. /\ y \in Channel /\ y.fd = ch.fd /\ y.status = ch.status
      /\ y.pkg = ch.pkg /\ y.src = ch.src
  BY <1>1 DEF Channel
<1> HIDE DEF x, y
<1>6. Good([s EXCEPT !.channel[c] = x]) /\ SameFds(s, [s EXCEPT !.channel[c] = x])
  BY <1>2, <1>4, PatchGood
<1>7. Good([s EXCEPT !.channel[c] = y]) /\ SameFds(s, [s EXCEPT !.channel[c] = y])
  BY <1>2, <1>5, PatchGood
<1> QED BY <1>3, <1>6, <1>7

\* server_send_cb when the rest is sent: pSrcChannel may have been freed, or be
\* in use by another connection, and yet starting its watcher is harmless to the
\* map and the descriptors.
LEMMA SendDoneGood ==
    ASSUME NEW s, Good(s), NEW c \in Slot, s.channel[c].fd \in FD
    PROVE  Good(SendDone(s, c))
<1> DEFINE ch == s.channel[c]
           u == Continue(s, ch.fd, ch.pkg, ch.len, "all")
           x == [u.channel[c] EXCEPT !.len = PKG_UNITS, !.sendOn = FALSE,
                                     !.recvOn = TRUE]
           t == [u EXCEPT !.channel[c] = x]
<1>1. CASE ch.src = NULL
  BY <1>1, FreshGood DEF SendDone, RunState
<1>2. CASE ch.src # NULL
  <2>1. ch \in Channel
    BY DEF Good, State
  <2>2. ch.len \in 0 .. PKG_UNITS /\ ch.pkg \in Pkg /\ ch.src \in Slot
    BY <1>2, <2>1 DEF Channel
  <2>3. s.wire[ch.fd] \in Wire
    BY DEF Good, State
  <2>4. s.wire[ch.fd].off = ch.len => ch.len < PKG_UNITS
    BY <2>3 DEF Wire, PKG_UNITS
  <2>5. s.channel[ch.src].fd \in FD
    BY <1>2 DEF Good, Located
  <2>6. SendDone(s, c) = RecvIo(t, ch.src, TRUE)
    BY <1>2 DEF SendDone
  <2>7. /\ Good(u)
        /\ u.channel = s.channel
    <3> DEFINE fits == /\ ch.pkg # ZeroPkg /\ s.wire[ch.fd].due = ch.pkg
                    /\ s.wire[ch.fd].off = ch.len
    <3>1. u = Write(s, ch.fd, ch.pkg, ch.len, fits, "all")
      BY DEF Continue
    <3>2. fits => ch.len < PKG_UNITS
      BY <2>4
    <3>3. ch.fd \in FD /\ "all" \in SendResult
      BY DEF SendResult
    <3> HIDE DEF u, fits, ch
    <3> QED BY <2>2, <3>1, <3>2, <3>3, WriteGood
  <2> HIDE DEF u
  <2>8. /\ x \in Channel
        /\ x.fd = ch.fd /\ x.pkg = ch.pkg /\ x.status = ch.status /\ x.src = ch.src
    BY <2>1, <2>7, Members DEF Channel
  <2> HIDE DEF x
  <2>9. x.src # NULL => u.channel[x.src].fd \in FD
    BY <2>5, <2>7, <2>8
  <2>10. Good(t) /\ SameFds(u, t)
    BY <2>7, <2>8, <2>9, PatchGood
  <2> HIDE DEF t
  <2>11. t.channel[ch.src].fd \in FD
    BY <2>2, <2>5, <2>7, <2>10 DEF SameFds
  <2> HIDE DEF ch
  <2> QED BY <2>2, <2>6, <2>10, <2>11, IoGood
<1> QED BY <1>1, <1>2

\* accept_cb: the first free channel is in no entry of the map, and the new
\* descriptor, not open until now, is not a key of it, so that insert does insert.
LEMMA AcceptGood ==
    ASSUME NEW s, Good(s), NEW f \in FD \ s.open, NEW c \in Slot,
           FirstFree(s, c)
    PROVE  Good(accept_cb(s, f, c))
<1> DEFINE t == get_free_channel(s, c, f)
           x == [s.channel[c] EXCEPT !.fd = f, !.status = "ACTIVE",
                                     !.pkg = ZeroPkg, !.len = 0, !.recvOn = TRUE]
<1>1. CASE s.channel[c].recvOn \/ s.channel[c].sendOn
  BY <1>1, FreshGood DEF accept_cb, RunState
<1>2. CASE ~(s.channel[c].recvOn \/ s.channel[c].sendOn)
  <2>1. s.channel[c] \in Channel /\ s.channel[c].status = "NON_ACTIVE"
    BY DEF Good, State, FirstFree
  <2>2. s.channel_map[f] = NULL
    BY DEF Good, NoLeak
  <2>3. \A g \in FD : s.channel_map[g] # c
    BY <2>1, NullNotSlot DEF Good, MapSound
  <2>4. /\ x \in Channel
        /\ x.fd = f /\ x.status = "ACTIVE" /\ x.pkg = ZeroPkg
        /\ x.src = s.channel[c].src
    BY <2>1, Members DEF Channel
  <2>5. t = [s EXCEPT !.channel[c] = x,
                      !.channel_map = Insert(s.channel_map, f, c),
                      !.open = s.open \cup {f}]
    BY DEF get_free_channel
  <2>6. accept_cb(s, f, c) = t
    BY <1>2 DEF accept_cb
  <2>7. Insert(s.channel_map, f, c) = [s.channel_map EXCEPT ![f] = c]
    BY <2>2 DEF Insert
  <2> HIDE DEF x, t
  <2>8. t \in State
    <3>1. Insert(s.channel_map, f, c) \in [FD -> Slot \cup {NULL}]
      BY <2>7 DEF Good, State
    <3>2. s.open \cup {f} \in SUBSET FD
      BY DEF Good, State
    <3> QED BY <2>4, <2>5, <3>1, <3>2 DEF Good, State
  <2>9. /\ t.channel = [s.channel EXCEPT ![c] = x]
        /\ t.channel_map = [s.channel_map EXCEPT ![f] = c]
        /\ t.open = s.open \cup {f}
    BY <2>5, <2>7 DEF Good, State
  <2>10. /\ t.channel[c] = x
         /\ \A d \in Slot \ {c} : t.channel[d] = s.channel[d]
         /\ t.channel_map[f] = c
         /\ \A g \in FD \ {f} : t.channel_map[g] = s.channel_map[g]
    BY <2>9 DEF Good, State
  <2>11. \A g \in FD \ {f} : t.channel_map[g] # NULL =>
            t.channel_map[g] \in Slot \ {c}
    BY <2>3, <2>10 DEF Good, State
  <2>12. MapSound(t)
    BY <2>4, <2>10, <2>11 DEF Good, MapSound
  <2>13. NoLeak(t)
    BY <2>9, <2>10, NullNotSlot DEF Good, NoLeak
  <2>14. Addressed(t)
    <3>1. x.pkg.fd = 0
      BY <2>4 DEF ZeroPkg
    <3> QED BY <2>10, <2>11, <3>1 DEF Good, Addressed
  <2>15. Located(t)
    <3>1. \A d \in Slot : s.channel[d].src \in Slot \cup {NULL}
      BY DEF Good, State, Channel
    <3> QED BY <2>4, <2>10, <3>1 DEF Good, Located
  <2> QED BY <2>6, <2>8, <2>12, <2>13, <2>14, <2>15 DEF Good
<1> QED BY <1>1, <1>2

\* dispatch, where the channel freed last may already be freed, by the
\* notification to a raspi that is the destination itself.
LEMMA DispatchGood ==
    ASSUME NEW s, Good(s), NEW p \in Pkg, NEW srcfd,
           NEW out \in SendResult, NEW out2 \in SendResult
    PROVE  Good(dispatch(s, p, srcfd, out, out2))
<1> DEFINE src == Find(s.channel_map, srcfd)
           dst == Find(s.channel_map, p.fd)
           u == Begin(s, p.fd, p, out)
           n == IF out = "some" THEN 1 ELSE 0
           x == [u.channel[dst] EXCEPT !.pkg = p, !.len = n]
           t == [u EXCEPT !.channel[dst] = x]
<1>1. CASE ~Usable(s, src) \/ ~Usable(s, dst)
  BY <1>1 DEF dispatch
<1>2. CASE Usable(s, src) /\ Usable(s, dst)
  <2>1. /\ p.fd \in FD /\ dst \in Slot /\ s.channel[dst] \in Channel
        /\ s.channel[dst].fd = p.fd
    BY <1>2, UsableFound
  <2>2. src \in Slot /\ s.channel[src].fd \in FD
    BY <1>2, UsableFound
  <2>3. Good(u) /\ u.channel = s.channel
    BY <2>1, BeginGood
  <2>4. /\ out = "all" => dispatch(s, p, srcfd, out, out2) =
                             RecvIo(SendIo(t, dst, FALSE), src, TRUE)
        /\ out = "fail" => dispatch(s, p, srcfd, out, out2) =
              free_channel(check_break_fd(t, t.channel[dst].type,
                                          t.channel[dst].fd, out2), dst)
        /\ out \notin {"all", "fail"} => dispatch(s, p, srcfd, out, out2) =
              [SendIo(RecvIo(t, src, FALSE), dst, TRUE) EXCEPT !.channel[dst].src = src]
    BY <1>2 DEF dispatch
  <2>5. n \in 0 .. PKG_UNITS
    BY Members
  <2> HIDE DEF u, src, dst, n
  <2>6. /\ x \in Channel
        /\ x.fd = p.fd /\ x.pkg = p /\ x.status = u.channel[dst].status
        /\ x.src = u.channel[dst].src
    BY <2>1, <2>3, <2>5 DEF Channel
  <2> HIDE DEF x
  <2>7. x.src # NULL => u.channel[x.src].fd \in FD
    BY <2>1, <2>3, <2>6 DEF Good, Located
  <2>8. Good(t) /\ SameFds(u, t) /\ t.channel[dst].fd = p.fd
    <3>1. Good(t) /\ SameFds(u, t)
      BY <2>1, <2>3, <2>6, <2>7, PatchGood
    <3> QED BY <2>1, <2>3, <3>1 DEF SameFds
  <2>9. t.channel[src].fd \in FD
    BY <2>2, <2>3, <2>8 DEF SameFds
  <2> HIDE DEF t
  <2>10. CASE out = "fail"
    <3> DEFINE b == check_break_fd(t, t.channel[dst].type, t.channel[dst].fd, out2)
    <3>1. Good(b) /\ SameFds(t, b)
      BY <2>1, <2>8, BreakGood
    <3> HIDE DEF b
    <3>2. b.channel[dst].fd \in FD
      BY <2>1, <2>8, <3>1 DEF SameFds
    <3> QED BY <2>1, <2>4, <2>10, <3>1, <3>2, FreeGood DEF b
  <2>11. CASE out = "all"
    <3> DEFINE v == SendIo(t, dst, FALSE)
    <3>1. Good(v) /\ SameFds(t, v)
      BY <2>1, <2>8, IoGood
    <3> HIDE DEF v
    <3>2. v.channel[src].fd \in FD
      BY <2>2, <2>9, <3>1 DEF SameFds
    <3> QED BY <2>2, <2>4, <2>11, <3>1, <3>2, IoGood DEF v
  <2>12. CASE out \notin {"all", "fail"}
    <3> DEFINE v == RecvIo(t, src, FALSE)
               w == SendIo(v, dst, TRUE)
               y == [w.channel[dst] EXCEPT !.src = src]
    <3>1. Good(v) /\ SameFds(t, v)
      BY <2>2, <2>9, IoGood, <2>8
    <3> HIDE DEF v
    <3>2. Good(w) /\ SameFds(v, w)
      <4>1. v.channel[dst].fd \in FD
        BY <2>1, <2>8, <3>1 DEF SameFds
      <4> QED BY <2>1, <3>1, <4>1, IoGood
    <3>3. dispatch(s, p, srcfd, out, out2) = [w EXCEPT !.channel[dst] = y]
      BY <2>4, <2>12 DEF v
    <3> HIDE DEF w
    <3>4. w.channel[dst] \in Channel /\ w.channel[dst].fd = p.fd
      BY <2>1, <2>8, <3>1, <3>2 DEF Good, State, SameFds
    <3>5. /\ y \in Channel /\ y.fd = p.fd /\ y.pkg = w.channel[dst].pkg
          /\ y.status = w.channel[dst].status /\ y.src = src
      BY <2>2, <3>4 DEF Channel
    <3>6. w.channel[src].fd \in FD
      BY <2>2, <2>9, <3>1, <3>2 DEF SameFds
    <3> HIDE DEF y
    <3> QED BY <2>1, <3>2, <3>3, <3>4, <3>5, <3>6, PatchGood
  <2> QED BY <2>10, <2>11, <2>12
<1> QED BY <1>1, <1>2

\* handle_register_client_req.
LEMMA RegisterGood ==
    ASSUME NEW s, Good(s), NEW p \in Pkg, NEW fd \in FD, NEW out \in SendResult
    PROVE  Good(handle_register_client_req(s, p, fd, out))
<1> DEFINE c == Find(s.channel_map, fd)
           res == [cmd |-> "REGISTER_CLIENT_RES", fd |-> fd, arg |-> 0]
           x == [s.channel[c] EXCEPT !.type = ClientType(p), !.pkg = res]
           t == [s EXCEPT !.channel[c] = x]
<1>1. res \in Pkg
  BY NullNotFD DEF Pkg, PKG_CMD_TYPE
<1>2. CASE ~Usable(s, c) \/ p.arg \notin {0, 1}
  BY <1>2 DEF handle_register_client_req
<1>3. CASE Usable(s, c) /\ p.arg \in {0, 1}
  <2>1. c \in Slot /\ s.channel[c] \in Channel /\ s.channel[c].fd = fd
    BY <1>3, UsableFound
  <2>2. ClientType(p) \in CLIENT_TYPE
    BY DEF ClientType, CLIENT_TYPE
  <2>3. \/ handle_register_client_req(s, p, fd, out) = t
        \/ handle_register_client_req(s, p, fd, out) = response(t, res, out)
    BY <1>3 DEF handle_register_client_req
  <2>4. res.fd = fd
    OBVIOUS
  <2> HIDE DEF c, res
  <2>5. /\ x \in Channel
        /\ x.fd = fd /\ x.pkg = res /\ x.status = s.channel[c].status
        /\ x.src = s.channel[c].src
    BY <1>1, <2>1, <2>2 DEF Channel
  <2> HIDE DEF x
  <2>6. x.src # NULL => s.channel[x.src].fd \in FD
    BY <2>1, <2>5 DEF Good, Located
  <2>7. Good(t)
    BY <2>1, <2>4, <2>5, <2>6, PatchGood
  <2> HIDE DEF t
  <2> QED BY <1>1, <2>3, <2>7, ResponseGood
<1> QED BY <1>2, <1>3

\* handle_choose_server_req, whose notification to the raspi keeps the fd of
\* the packet the raspi was sent last: Addressed says that this is the raspi's
\* own, or 0 if it was never sent one.
LEMMA ChooseGood ==
    ASSUME NEW s, Good(s), NEW p \in Pkg, NEW fd \in FD,
           NEW out \in SendResult, NEW out2 \in SendResult
    PROVE  Good(handle_choose_server_req(s, p, fd, out, out2))
<1> DEFINE c == Find(s.channel_map, fd)
           r == Find(s.channel_map, p.arg)
           res == [cmd |-> "CHOOSE_SERVER_RES", fd |-> fd, arg |-> 0]
           x == [s.channel[c] EXCEPT !.pkg = res]
           t0 == [s EXCEPT !.channel[c] = x]
           t1 == response(t0, res, out)
           ntf == [cmd |-> "START_SEND_DATA_NTF", fd |-> t1.channel[r].pkg.fd,
                   arg |-> fd]
           y == [t1.channel[r] EXCEPT !.pkg = ntf]
           t2 == [t1 EXCEPT !.channel[r] = y]
           t3 == response(t2, ntf, out2)
<1>1. CASE ~Usable(s, c) \/ ~Usable(s, r)
  BY <1>1 DEF handle_choose_server_req
<1>2. CASE Usable(s, c) /\ Usable(s, r)
  <2>1. c \in Slot /\ s.channel[c] \in Channel /\ s.channel[c].fd = fd
    BY <1>2, UsableFound
  <2>2. /\ p.arg \in FD /\ s.channel_map[p.arg] = r
        /\ r \in Slot /\ s.channel[r] \in Channel /\ s.channel[r].fd = p.arg
    BY <1>2, UsableFound
  <2>3. handle_choose_server_req(s, p, fd, out, out2) =
          [t3 EXCEPT !.bridge_map = Insert(t3.bridge_map, fd, r)]
    BY <1>2 DEF handle_choose_server_req
  <2>4. res \in Pkg /\ res.fd = fd
    BY NullNotFD DEF Pkg, PKG_CMD_TYPE
  <2> HIDE DEF c, r, res
  <2>5. /\ x \in Channel
        /\ x.fd = fd /\ x.pkg = res /\ x.status = s.channel[c].status
        /\ x.src = s.channel[c].src
    BY <2>1, <2>4 DEF Channel
  <2> HIDE DEF x
  <2>6. x.src # NULL => s.channel[x.src].fd \in FD
    BY <2>1, <2>5 DEF Good, Located
  <2>7. Good(t0) /\ SameFds(s, t0) /\ t0.channel[r].pkg.fd \in {0, p.arg}
    <3>1. /\ Good(t0) /\ SameFds(s, t0)
          /\ t0.channel = [s.channel EXCEPT ![c] = x]
      BY <2>1, <2>4, <2>5, <2>6, PatchGood
    <3>2. s.channel[r].pkg.fd \in {0, p.arg}
      BY <2>2, NullNotSlot DEF Good, Addressed
    <3> HIDE DEF t0
    <3>3. t0.channel[r] = IF r = c THEN x ELSE s.channel[r]
      BY <2>1, <2>2, <3>1 DEF Good, State
    <3> QED BY <2>1, <2>2, <2>4, <2>5, <3>1, <3>2, <3>3
  <2> HIDE DEF t0
  <2>8. Good(t1) /\ SameFds(t0, t1) /\ SamePkgs(t0, t1)
    BY <2>4, <2>7, ResponseGood
  <2> HIDE DEF t1
  <2>9. /\ t1.channel[r] \in Channel
        /\ t1.channel[r].fd = p.arg
        /\ t1.channel[r].pkg.fd \in {0, p.arg}
    BY <2>2, <2>7, <2>8 DEF SameFds, SamePkgs, Good, State
  <2>10. ntf \in Pkg /\ ntf.fd \in {0, p.arg}
    BY <2>9, NullNotFD DEF Pkg, PKG_CMD_TYPE
  <2> HIDE DEF ntf
  <2>11. /\ y \in Channel
         /\ y.fd = p.arg /\ y.pkg = ntf /\ y.status = t1.channel[r].status
         /\ y.src = t1.channel[r].src
    BY <2>9, <2>10 DEF Channel
  <2> HIDE DEF y
  <2>12. y.src # NULL => t1.channel[y.src].fd \in FD
    BY <2>2, <2>8, <2>11 DEF Good, Located
  <2>13. Good(t2)
    BY <2>2, <2>8, <2>9, <2>10, <2>11, <2>12, PatchGood
  <2> HIDE DEF t2
  <2>14. Good(t3)
    BY <2>10, <2>13, ResponseGood
  <2> HIDE DEF t3
  <2>15. ASSUME NEW m \in [FD -> Slot \cup {NULL}]
         PROVE  Good([t3 EXCEPT !.bridge_map = m])
    BY <2>14 DEF Good, State, MapSound, NoLeak, Addressed, Located
  <2>16. Insert(t3.bridge_map, fd, r) \in [FD -> Slot \cup {NULL}]
    BY <2>2, <2>14 DEF Insert, Good, State
  <2> QED BY <2>3, <2>15, <2>16
<1> QED BY <1>1, <1>2

-----------------------------------------------------------------------------
(* send() takes a packet whole or fails.                                   *)

\* No rest waits to be sent, and exactly the channels the map finds are read.
Watched(s) ==
    \A c \in Slot :
        /\ ~s.channel[c].sendOn
        /\ s.channel[c].recvOn <=> \E f \in FD : s.channel_map[f] = c

\* The invariant.
Smooth(s) ==
    /\ Good(s) /\ Watched(s)
    /\ \A f \in FD : s.wire[f] = Clean
    /\ s.run # "undef"

\* What every function but accept_cb does to a watched state s: connections may
\* end, but no stream is left in the middle of a packet.
Follows(s, t) ==
    /\ Good(t) /\ Watched(t)
    /\ \A f \in FD : s.wire[f] = Clean => t.wire[f] = Clean
    /\ \A f \in FD : t.channel_map[f] \in {s.channel_map[f], NULL}
    /\ t.run = s.run

\* Follows holds of what changes nothing,
LEMMA FollowsItself ==
    ASSUME NEW s, Good(s), Watched(s)
    PROVE  Follows(s, s)
BY DEF Follows

\* and of one function after the other.
LEMMA FollowsTwice ==
    ASSUME NEW s, NEW t, NEW u, Follows(s, t), Follows(t, u)
    PROVE  Follows(s, u)
BY DEF Follows

\* The fields a function changes with a channel.
LEMMA Fields ==
    ASSUME NEW s, Good(s), NEW c \in Slot, NEW x
    PROVE  LET t == [s EXCEPT !.channel[c] = x] IN
           /\ t.channel = [s.channel EXCEPT ![c] = x]
           /\ t.channel_map = s.channel_map /\ t.bridge_map = s.bridge_map
           /\ t.open = s.open /\ t.wire = s.wire /\ t.run = s.run
BY DEF Good, State

\* Overwriting one channel leaves the watchers alone.
LEMMA PatchFollows ==
    ASSUME NEW s, Good(s), Watched(s), NEW c \in Slot, NEW x,
           x.recvOn = s.channel[c].recvOn, ~x.sendOn,
           Good([s EXCEPT !.channel[c] = x])
    PROVE  Follows(s, [s EXCEPT !.channel[c] = x])
<1> DEFINE t == [s EXCEPT !.channel[c] = x]
<1>1. /\ t.channel = [s.channel EXCEPT ![c] = x]
      /\ t.channel_map = s.channel_map /\ t.wire = s.wire /\ t.run = s.run
  BY Fields
<1>2. \A d \in Slot : t.channel[d] = IF d = c THEN x ELSE s.channel[d]
  BY <1>1 DEF Good, State
<1> HIDE DEF t
<1>3. Watched(t)
  BY <1>1, <1>2 DEF Watched
<1> QED BY <1>1, <1>3 DEF Follows, t

\* free_channel, on a channel whose descriptor no other channel uses.
LEMMA FreeFollows ==
    ASSUME NEW s, Good(s), Watched(s), NEW c \in Slot, s.channel[c].fd \in FD,
           s.channel_map[s.channel[c].fd] \in {c, NULL}
    PROVE  /\ Follows(s, free_channel(s, c))
           /\ free_channel(s, c).wire[s.channel[c].fd] = Clean
<1> DEFINE t == free_channel(s, c)
           f == s.channel[c].fd
           x == [s.channel[c] EXCEPT !.status = "NON_ACTIVE", !.len = 0,
                                     !.recvOn = FALSE, !.sendOn = FALSE]
<1>1. /\ t.channel = [s.channel EXCEPT ![c] = x]
      /\ t.channel_map = [s.channel_map EXCEPT ![f] = NULL]
      /\ t.wire = [s.wire EXCEPT ![f] = Clean]
      /\ t.run = s.run
  BY DEF free_channel, Good, State
<1>2. ~x.recvOn /\ ~x.sendOn
  BY DEF Good, State, Channel
<1>3. Good(t)
  BY FreeGood
<1> HIDE DEF t, x
<1>4. \A d \in Slot : t.channel[d] = IF d = c THEN x ELSE s.channel[d]
  BY <1>1 DEF Good, State
<1>5. \A g \in FD : t.channel_map[g] = IF g = f THEN NULL ELSE s.channel_map[g]
  BY <1>1 DEF Good, State
<1>6. \A g \in FD : t.wire[g] = IF g = f THEN Clean ELSE s.wire[g]
  BY <1>1 DEF Good, State
<1>7. \A g \in FD : s.channel_map[g] = c => g = f
  BY NullNotSlot DEF Good, MapSound
<1>8. Watched(t)
  <2> SUFFICES ASSUME NEW d \in Slot
               PROVE  /\ ~t.channel[d].sendOn
                      /\ t.channel[d].recvOn <=> \E g \in FD : t.channel_map[g] = d
    BY DEF Watched
  <2>1. CASE d = c
    BY <1>2, <1>4, <1>5, <1>7, <2>1, NullNotSlot
  <2>2. CASE d # c
    <3>1. \A g \in FD : t.channel_map[g] = d <=> s.channel_map[g] = d
      BY <1>5, <2>2, NullNotSlot
    <3> QED BY <1>4, <2>2, <3>1 DEF Watched
  <2> QED BY <2>1, <2>2
<1> QED BY <1>1, <1>3, <1>5, <1>6, <1>8 DEF Follows, t

\* A first send() that takes the packet whole, or fails.
LEMMA BeginWire ==
    ASSUME NEW s, Good(s), NEW f \in FD, NEW p, NEW out \in {"all", "fail"}
    PROVE  LET t == Begin(s, f, p, out) IN
           /\ t.run = s.run
           /\ \A g \in FD \ {f} : t.wire[g] = s.wire[g]
           /\ out = "all" /\ s.wire[f] = Clean => t.wire[f] = Clean
<1> DEFINE t == Begin(s, f, p, out)
<1>1. t.run = s.run /\ \E w : t.wire = [s.wire EXCEPT ![f] = w]
  BY DEF Begin, Write, Good, State
<1>2. \A g \in FD \ {f} : t.wire[g] = s.wire[g]
  BY <1>1 DEF Good, State
<1>3. ASSUME out = "all", s.wire[f] = Clean PROVE t.wire[f] = Clean
  <2>1. ~s.wire[f].torn /\ s.wire[f].due = ZeroPkg
    BY <1>3 DEF Clean
  <2>2. t.wire = [s.wire EXCEPT ![f] = Clean]
    BY <1>3, <2>1 DEF Begin, Write, Good, State
  <2> QED BY <2>2 DEF Good, State
<1> QED BY <1>1, <1>2, <1>3

\* response() leaves the stream whole, or frees the connection.
LEMMA ResponseFollows ==
    ASSUME NEW s, Good(s), Watched(s), NEW p \in Pkg, NEW out \in {"all", "fail"}
    PROVE  Follows(s, response(s, p, out))
<1> DEFINE c == Find(s.channel_map, p.fd)
           t == Begin(s, p.fd, p, out)
           r == response(s, p, out)
<1>1. CASE ~Usable(s, c)
  BY <1>1, FollowsItself DEF response
<1>2. CASE Usable(s, c)
  <2>1. /\ p.fd \in FD /\ c \in Slot /\ s.channel[c] \in Channel
        /\ s.channel[c].fd = p.fd /\ s.channel_map[p.fd] = c
    BY <1>2, UsableFound
  <2> out \in SendResult
    BY DEF SendResult
  <2>2. Good(t) /\ t.channel = s.channel /\ t.channel_map = s.channel_map
    BY <2>1, BeginGood
  <2>3. /\ t.run = s.run
        /\ \A g \in FD \ {p.fd} : t.wire[g] = s.wire[g]
        /\ out = "all" /\ s.wire[p.fd] = Clean => t.wire[p.fd] = Clean
    BY <2>1, BeginWire
  <2>4. Watched(t)
    BY <2>2 DEF Watched
  <2>5. CASE out = "fail"
    <3>1. r = free_channel(t, c)
      BY <1>2, <2>5 DEF response
    <3> HIDE DEF c, t, r
    <3>2. Follows(t, r) /\ r.wire[p.fd] = Clean
      BY <2>1, <2>2, <2>4, <3>1, FreeFollows
    <3>3. \A g \in FD : s.wire[g] = Clean => r.wire[g] = Clean
      BY <2>3, <3>2 DEF Follows
    <3> QED BY <2>2, <2>3, <3>2, <3>3 DEF Follows, r
  <2>6. CASE out = "all"
    <3> DEFINE x == [s.channel[c] EXCEPT !.len = 0, !.sendOn = s.channel[c].sendOn,
                                         !.recvOn = TRUE]
    <3>1. r = [t EXCEPT !.channel[c] = x]
      BY <1>2, <2>6 DEF response
    <3>2. Good(r)
      BY <2>2, ResponseGood
    <3>3. ~x.sendOn /\ x.recvOn = t.channel[c].recvOn
      <4>1. ~s.channel[c].sendOn /\ s.channel[c].recvOn = TRUE
        BY <2>1 DEF Watched, Channel
      <4> QED BY <2>1, <2>2, <4>1 DEF Channel
    <3> HIDE DEF c, t, r, x
    <3>4. Follows(t, r)
      BY <2>1, <2>2, <2>4, <3>1, <3>2, <3>3, PatchFollows
    <3> QED BY <2>2, <2>3, <2>6, <3>4 DEF Follows, r
  <2> QED BY <2>5, <2>6
<1> QED BY <1>1, <1>2

\* check_break_fd marks a channel active, which starts no watcher.
LEMMA BreakFollows ==
    ASSUME NEW s, Good(s), Watched(s), NEW type, NEW f \in FD,
           NEW out \in {"all", "fail"}
    PROVE  Follows(s, check_break_fd(s, type, f, out))
<1> DEFINE b == s.bridge_map[f]
           ntf == [cmd |-> "RESTART_CLIENT_NTF", fd |-> s.channel[b].fd, arg |-> 1]
           u == response(s, ntf, out)
           t == [u EXCEPT !.channel[b].status = "ACTIVE", !.bridge_map[f] = NULL]
<1>1. CASE type # "CTYPE_REMOTE" \/ b = NULL
  BY <1>1, FollowsItself DEF check_break_fd
<1>2. CASE ~(type # "CTYPE_REMOTE" \/ b = NULL)
  <2>1. b \in Slot /\ s.channel[b] \in Channel
    BY <1>2 DEF Good, State
  <2>2. ntf \in Pkg
    <3>1. s.channel[b].fd \in Int
      BY <2>1, NullNotFD DEF Channel
    <3> QED BY <3>1 DEF Pkg, PKG_CMD_TYPE
  <2>3. check_break_fd(s, type, f, out) = t
    BY <1>2 DEF check_break_fd
  <2> HIDE DEF b, ntf
  <2>4. Follows(s, u)
    BY <2>2, ResponseFollows
  <2> HIDE DEF u, t
  <2>5. Good(t)
    <3>1. out \in SendResult
      BY DEF SendResult
    <3> QED BY <2>3, <3>1, BreakGood
  <2>6. Good(u) /\ Watched(u)
    BY <2>4 DEF Follows
  <2>7. /\ t.channel = [u.channel EXCEPT ![b] = [@ EXCEPT !.status = "ACTIVE"]]
        /\ t.channel_map = u.channel_map /\ t.wire = u.wire /\ t.run = u.run
    BY <2>1, <2>6 DEF Good, State, t
  <2>8. \A d \in Slot : /\ t.channel[d].recvOn = u.channel[d].recvOn
                        /\ t.channel[d].sendOn = u.channel[d].sendOn
    BY <2>1, <2>6, <2>7 DEF Good, State, Channel
  <2>9. Watched(t)
    BY <2>6, <2>7, <2>8 DEF Watched
  <2>10. Follows(u, t)
    BY <2>5, <2>7, <2>9 DEF Follows
  <2> QED BY <2>3, <2>4, <2>10, FollowsTwice
<1> QED BY <1>1, <1>2

\* server_recv_cb at the end of a stream, on a channel that is read.
LEMMA PeerClosedFollows ==
    ASSUME NEW s, Good(s), Watched(s), NEW c \in Slot, s.channel[c].fd \in FD,
           s.channel_map[s.channel[c].fd] = c, NEW out \in {"all", "fail"}
    PROVE  Follows(s, PeerClosed(s, c, out))
<1> DEFINE t == free_channel(s, c)
<1>1. Follows(s, t)
  BY FreeFollows
<1>2. Good(t) /\ Watched(t)
  BY <1>1 DEF Follows
<1> HIDE DEF t
<1>3. Follows(t, check_break_fd(t, s.channel[c].type, s.channel[c].fd, out))
  BY <1>2, BreakFollows
<1> QED BY <1>1, <1>3, FollowsTwice DEF PeerClosed, t

\* So does dispatch.
LEMMA DispatchFollows ==
    ASSUME NEW s, Good(s), Watched(s), NEW p \in Pkg, NEW srcfd,
           NEW out \in {"all", "fail"}, NEW out2 \in {"all", "fail"}
    PROVE  Follows(s, dispatch(s, p, srcfd, out, out2))
<1> DEFINE src == Find(s.channel_map, srcfd)
           dst == Find(s.channel_map, p.fd)
           u == Begin(s, p.fd, p, out)
           x == [u.channel[dst] EXCEPT !.pkg = p,
                                       !.len = IF out = "some" THEN 1 ELSE 0]
           t == [u EXCEPT !.channel[dst] = x]
           d == dispatch(s, p, srcfd, out, out2)
<1>1. CASE ~Usable(s, src) \/ ~Usable(s, dst)
  BY <1>1, FollowsItself DEF dispatch
<1>2. CASE Usable(s, src) /\ Usable(s, dst)
  <2> out \in SendResult /\ out2 \in SendResult
    BY DEF SendResult
  <2>1. /\ p.fd \in FD /\ dst \in Slot /\ s.channel[dst] \in Channel
        /\ s.channel[dst].fd = p.fd /\ s.channel_map[p.fd] = dst
    BY <1>2, UsableFound
  <2>2. /\ srcfd \in FD /\ src \in Slot
        /\ s.channel[src].fd \in FD /\ s.channel_map[srcfd] = src
    BY <1>2, UsableFound
  <2>3. Good(u) /\ u.channel = s.channel /\ u.channel_map = s.channel_map
    BY <2>1, BeginGood
  <2>4. /\ u.run = s.run
        /\ \A g \in FD \ {p.fd} : u.wire[g] = s.wire[g]
        /\ out = "all" /\ s.wire[p.fd] = Clean => u.wire[p.fd] = Clean
    BY <2>1, BeginWire
  <2>5. /\ out = "all" => d = RecvIo(SendIo(t, dst, FALSE), src, TRUE)
        /\ out = "fail" =>
             d = free_channel(check_break_fd(t, t.channel[dst].type,
                                             t.channel[dst].fd, out2), dst)
    BY <1>2 DEF dispatch
  <2>6. /\ x \in Channel
        /\ x.fd = p.fd /\ x.pkg = p /\ x.status = u.channel[dst].status
        /\ x.src = u.channel[dst].src /\ x.recvOn = u.channel[dst].recvOn
        /\ x.sendOn = u.channel[dst].sendOn
    <3>1. (IF out = "some" THEN 1 ELSE 0) \in 0 .. PKG_UNITS
      BY Members
    <3> QED BY <2>1, <2>3, <3>1 DEF Channel
  <2>7. Good(d)
    BY DispatchGood
  <2> HIDE DEF u, x, src, dst, d
  <2>8. Watched(u)
    BY <2>3 DEF Watched
  <2>9. Good(t) /\ t.channel[dst].fd = p.fd
    <3>1. x.src # NULL => u.channel[x.src].fd \in FD
      BY <2>1, <2>3, <2>6 DEF Good, Located
    <3>2. Good(t) /\ SameFds(u, t)
      BY <2>1, <2>3, <2>6, <3>1, PatchGood
    <3> QED BY <2>1, <2>3, <3>2 DEF SameFds
  <2>10. Follows(u, t)
    BY <2>1, <2>3, <2>6, <2>8, <2>9, PatchFollows DEF Watched
  <2>11. Watched(t) /\ t.channel_map[p.fd] \in {dst, NULL}
    BY <2>1, <2>3, <2>10 DEF Follows
  <2>12. CASE out = "fail"
    <3> DEFINE b == check_break_fd(t, t.channel[dst].type, t.channel[dst].fd, out2)
    <3>1. Follows(t, b)
      BY <2>1, <2>9, <2>11, BreakFollows
    <3>2. SameFds(t, b)
      BY <2>1, <2>9, BreakGood
    <3>3. d = free_channel(b, dst)
      BY <2>5, <2>12
    <3> HIDE DEF b, t
    <3>4. /\ Good(b) /\ Watched(b) /\ b.channel[dst].fd = p.fd
          /\ b.channel_map[p.fd] \in {dst, NULL}
      BY <2>1, <2>9, <2>11, <3>1, <3>2 DEF Follows, SameFds
    <3>5. Follows(b, d) /\ d.wire[p.fd] = Clean
      BY <2>1, <3>3, <3>4, FreeFollows
    <3>6. Follows(u, d)
      BY <2>10, <3>1, <3>5, FollowsTwice
    <3>7. \A g \in FD : s.wire[g] = Clean => d.wire[g] = Clean
      BY <2>4, <3>5, <3>6 DEF Follows
    <3> QED BY <2>3, <2>4, <3>6, <3>7 DEF Follows, d
  <2>13. CASE out = "all"
    <3> DEFINE v == SendIo(t, dst, FALSE)
               y == [t.channel[dst] EXCEPT !.sendOn = FALSE]
               z == [v.channel[src] EXCEPT !.recvOn = TRUE]
    <3>1. v = [t EXCEPT !.channel[dst] = y] /\ d = RecvIo(v, src, TRUE)
      BY <2>5, <2>13 DEF SendIo
    <3>2. Good(v)
      BY <2>1, <2>9, IoGood
    <3> HIDE DEF t, v
    <3>3. t.channel[dst] \in Channel
      BY <2>1, <2>9 DEF Good, State
    <3>4. y.recvOn = t.channel[dst].recvOn /\ ~y.sendOn
      BY <3>3 DEF Channel
    <3> HIDE DEF y
    <3>5. Follows(t, v)
      BY <2>1, <2>9, <2>11, <3>1, <3>2, <3>4, PatchFollows
    <3>6. Watched(v) /\ v.channel[src] \in Channel
      BY <2>2, <3>2, <3>5 DEF Follows, Good, State
    <3>7. v.channel[src].recvOn
      <4>1. s.channel[src].recvOn
        BY <2>2 DEF Watched
      <4>2. v.channel_map = s.channel_map
        <5>1. v.channel_map = t.channel_map
          BY <2>1, <2>9, <3>1, Fields
        <5>2. t.channel_map = u.channel_map
          BY <2>1, <2>3, Fields DEF t
        <5> QED BY <2>3, <5>1, <5>2
      <4> QED BY <2>2, <3>6, <4>2 DEF Watched
    <3>8. d = [v EXCEPT !.channel[src] = z]
      BY <3>1 DEF RecvIo
    <3>9. z.recvOn = v.channel[src].recvOn /\ ~z.sendOn
      BY <2>2, <3>6, <3>7 DEF Channel, Watched
    <3> HIDE DEF z
    <3>10. Follows(v, d)
      BY <2>2, <2>7, <3>2, <3>6, <3>8, <3>9, PatchFollows
    <3>11. Follows(u, d)
      BY <2>10, <3>5, <3>10, FollowsTwice
    <3> QED BY <2>3, <2>4, <2>13, <3>11 DEF Follows, d
  <2> QED BY <2>12, <2>13 DEF d
<1> QED BY <1>1, <1>2

\* So does the answer to a registration.
LEMMA RegisterFollows ==
    ASSUME NEW s, Good(s), Watched(s), NEW p \in Pkg, NEW fd \in FD,
           NEW out \in {"all", "fail"}
    PROVE  Follows(s, handle_register_client_req(s, p, fd, out))
<1> DEFINE c == Find(s.channel_map, fd)
           res == [cmd |-> "REGISTER_CLIENT_RES", fd |-> fd, arg |-> 0]
           x == [s.channel[c] EXCEPT !.type = ClientType(p), !.pkg = res]
           t == [s EXCEPT !.channel[c] = x]
           h == handle_register_client_req(s, p, fd, out)
<1>1. CASE ~Usable(s, c) \/ p.arg \notin {0, 1}
  BY <1>1, FollowsItself DEF handle_register_client_req
<1>2. CASE Usable(s, c) /\ p.arg \in {0, 1}
  <2>1. c \in Slot /\ s.channel[c] \in Channel /\ s.channel[c].fd = fd
    BY <1>2, UsableFound
  <2>2. ClientType(p) \in CLIENT_TYPE
    BY DEF ClientType, CLIENT_TYPE
  <2>3. h = t \/ h = response(t, res, out)
    BY <1>2 DEF handle_register_client_req
  <2>4. res \in Pkg /\ res.fd = fd
    BY NullNotFD DEF Pkg, PKG_CMD_TYPE
  <2> HIDE DEF c, res, h
  <2>5. /\ x \in Channel
        /\ x.fd = fd /\ x.pkg = res /\ x.status = s.channel[c].status
        /\ x.src = s.channel[c].src /\ x.recvOn = s.channel[c].recvOn
        /\ x.sendOn = s.channel[c].sendOn
    BY <2>1, <2>2, <2>4 DEF Channel
  <2> HIDE DEF x
  <2>6. x.src # NULL => s.channel[x.src].fd \in FD
    BY <2>1, <2>5 DEF Good, Located
  <2>7. Good(t)
    BY <2>1, <2>4, <2>5, <2>6, PatchGood
  <2>8. Follows(s, t)
    BY <2>1, <2>5, <2>7, PatchFollows DEF Watched
  <2> HIDE DEF t
  <2>9. Follows(t, response(t, res, out))
    BY <2>4, <2>7, <2>8, ResponseFollows DEF Follows
  <2> QED BY <2>3, <2>8, <2>9, FollowsTwice DEF h
<1> QED BY <1>1, <1>2

\* So do the answer to a choice and the notification of the raspi.
LEMMA ChooseFollows ==
    ASSUME NEW s, Good(s), Watched(s), NEW p \in Pkg, NEW fd \in FD,
           NEW out \in {"all", "fail"}, NEW out2 \in {"all", "fail"}
    PROVE  Follows(s, handle_choose_server_req(s, p, fd, out, out2))
<1> DEFINE c == Find(s.channel_map, fd)
           r == Find(s.channel_map, p.arg)
           res == [cmd |-> "CHOOSE_SERVER_RES", fd |-> fd, arg |-> 0]
           x == [s.channel[c] EXCEPT !.pkg = res]
           t0 == [s EXCEPT !.channel[c] = x]
           t1 == response(t0, res, out)
           ntf == [cmd |-> "START_SEND_DATA_NTF", fd |-> t1.channel[r].pkg.fd,
                   arg |-> fd]
           y == [t1.channel[r] EXCEPT !.pkg = ntf]
           t2 == [t1 EXCEPT !.channel[r] = y]
           t3 == response(t2, ntf, out2)
           h == handle_choose_server_req(s, p, fd, out, out2)
<1>1. CASE ~Usable(s, c) \/ ~Usable(s, r)
  BY <1>1, FollowsItself DEF handle_choose_server_req
<1>2. CASE Usable(s, c) /\ Usable(s, r)
  <2> out \in SendResult /\ out2 \in SendResult
    BY DEF SendResult
  <2>1. c \in Slot /\ s.channel[c] \in Channel /\ s.channel[c].fd = fd
    BY <1>2, UsableFound
  <2>2. /\ p.arg \in FD /\ s.channel_map[p.arg] = r
        /\ r \in Slot /\ s.channel[r] \in Channel /\ s.channel[r].fd = p.arg
    BY <1>2, UsableFound
  <2>3. h = [t3 EXCEPT !.bridge_map = Insert(t3.bridge_map, fd, r)]
    BY <1>2 DEF handle_choose_server_req
  <2>4. res \in Pkg /\ res.fd = fd
    BY NullNotFD DEF Pkg, PKG_CMD_TYPE
  <2>5. Good(h)
    BY ChooseGood
  <2> HIDE DEF c, r, res, h
  <2>6. /\ x \in Channel
        /\ x.fd = fd /\ x.pkg = res /\ x.status = s.channel[c].status
        /\ x.src = s.channel[c].src /\ x.recvOn = s.channel[c].recvOn
        /\ x.sendOn = s.channel[c].sendOn
    BY <2>1, <2>4 DEF Channel
  <2> HIDE DEF x
  <2>7. x.src # NULL => s.channel[x.src].fd \in FD
    BY <2>1, <2>6 DEF Good, Located
  <2>8. Good(t0) /\ SameFds(s, t0) /\ t0.channel = [s.channel EXCEPT ![c] = x]
    BY <2>1, <2>4, <2>6, <2>7, PatchGood
  <2>9. Follows(s, t0)
    BY <2>1, <2>6, <2>8, PatchFollows DEF Watched
  <2>10. t0.channel[r].pkg.fd \in {0, p.arg}
    <3>1. s.channel[r].pkg.fd \in {0, p.arg}
      BY <2>2, NullNotSlot DEF Good, Addressed
    <3>2. t0.channel[r] = IF r = c THEN x ELSE s.channel[r]
      BY <2>1, <2>2, <2>8 DEF Good, State
    <3> QED BY <2>1, <2>2, <2>4, <2>6, <3>1, <3>2
  <2> HIDE DEF t0
  <2>11. Good(t1) /\ SameFds(t0, t1) /\ SamePkgs(t0, t1)
    BY <2>4, <2>8, ResponseGood
  <2>12. Follows(t0, t1)
    BY <2>4, <2>8, <2>9, ResponseFollows DEF Follows
  <2> HIDE DEF t1
  <2>13. /\ t1.channel[r] \in Channel
         /\ t1.channel[r].fd = p.arg
         /\ t1.channel[r].pkg.fd \in {0, p.arg}
    BY <2>2, <2>8, <2>10, <2>11 DEF SameFds, SamePkgs, Good, State
  <2>14. ntf \in Pkg /\ ntf.fd \in {0, p.arg}
    BY <2>13, NullNotFD DEF Pkg, PKG_CMD_TYPE
  <2> HIDE DEF ntf
  <2>15. /\ y \in Channel
         /\ y.fd = p.arg /\ y.pkg = ntf /\ y.status = t1.channel[r].status
         /\ y.src = t1.channel[r].src /\ y.recvOn = t1.channel[r].recvOn
         /\ y.sendOn = t1.channel[r].sendOn
    BY <2>13, <2>14 DEF Channel
  <2> HIDE DEF y
  <2>16. y.src # NULL => t1.channel[y.src].fd \in FD
    BY <2>2, <2>11, <2>15 DEF Good, Located
  <2>17. Good(t2)
    BY <2>2, <2>11, <2>13, <2>14, <2>15, <2>16, PatchGood
  <2>18. Follows(t1, t2)
    <3>1. Watched(t1)
      BY <2>12 DEF Follows
    <3> QED BY <2>2, <2>11, <2>15, <2>17, <3>1, PatchFollows DEF Watched
  <2> HIDE DEF t2
  <2>19. Follows(t2, t3)
    BY <2>14, <2>17, <2>18, ResponseFollows DEF Follows
  <2> HIDE DEF t3
  <2>20. Follows(s, t3)
    BY <2>9, <2>12, <2>18, <2>19, FollowsTwice
  <2>21. /\ h.channel = t3.channel /\ h.channel_map = t3.channel_map
         /\ h.wire = t3.wire /\ h.run = t3.run
    BY <2>3, <2>20 DEF Follows, Good, State
  <2>22. Watched(h)
    BY <2>20, <2>21 DEF Follows, Watched
  <2> QED BY <2>5, <2>20, <2>21, <2>22 DEF Follows, h
<1> QED BY <1>1, <1>2

\* The first free channel has no watcher, so accept_cb initialises none that is
\* started.
LEMMA AcceptSmooth ==
    ASSUME NEW s, Smooth(s), NEW f \in FD \ s.open, NEW c \in Slot, FirstFree(s, c)
    PROVE  Smooth(accept_cb(s, f, c))
<1> DEFINE t == get_free_channel(s, c, f)
           x == [s.channel[c] EXCEPT !.fd = f, !.status = "ACTIVE",
                                     !.pkg = ZeroPkg, !.len = 0, !.recvOn = TRUE]
<1>1. Good(s) /\ Watched(s) /\ s.channel[c].status = "NON_ACTIVE"
  BY DEF Smooth, FirstFree
<1>2. \A g \in FD : s.channel_map[g] # c
  BY <1>1, NullNotSlot DEF Good, MapSound
<1>3. ~s.channel[c].recvOn /\ ~s.channel[c].sendOn
  BY <1>1, <1>2 DEF Watched
<1>4. accept_cb(s, f, c) = t
  BY <1>3 DEF accept_cb
<1>5. Good(t)
  BY <1>1, <1>4, AcceptGood
<1>6. s.channel_map[f] = NULL
  BY <1>1 DEF Good, NoLeak
<1>7. /\ t.channel = [s.channel EXCEPT ![c] = x]
      /\ t.channel_map = [s.channel_map EXCEPT ![f] = c]
      /\ t.wire = s.wire /\ t.run = s.run
  BY <1>1, <1>6 DEF get_free_channel, Insert, Good, State
<1>8. x.recvOn /\ ~x.sendOn
  BY <1>1, <1>3 DEF Good, State, Channel
<1> HIDE DEF t, x
<1>9. \A d \in Slot : t.channel[d] = IF d = c THEN x ELSE s.channel[d]
  BY <1>1, <1>7 DEF Good, State
<1>10. \A g \in FD : t.channel_map[g] = IF g = f THEN c ELSE s.channel_map[g]
  BY <1>1, <1>7 DEF Good, State
<1>11. Watched(t)
  <2> SUFFICES ASSUME NEW d \in Slot
               PROVE  /\ ~t.channel[d].sendOn
                      /\ t.channel[d].recvOn <=> \E g \in FD : t.channel_map[g] = d
    BY DEF Watched
  <2>1. CASE d = c
    BY <1>8, <1>9, <1>10, <2>1
  <2>2. CASE d # c
    <3>1. \A g \in FD : t.channel_map[g] = d <=> s.channel_map[g] = d
      BY <1>6, <1>10, <2>2, NullNotSlot
    <3> QED BY <1>1, <1>9, <2>2, <3>1 DEF Watched
  <2> QED BY <2>1, <2>2
<1> QED BY <1>4, <1>5, <1>7, <1>11 DEF Smooth

\* A process that has just started, or has ended, but for libev's lists.
LEMMA FreshSmooth ==
    ASSUME NEW how \in RunState \ {"undef"}
    PROVE  Smooth(Fresh(how))
<1>1. Good(Fresh(how))
  BY FreshGood
<1>2. Watched(Fresh(how))
  BY NullNotSlot DEF Watched, Fresh, ZeroChannel
<1> QED BY <1>1, <1>2 DEF Smooth, Fresh

\* What Follows a state without a rest leaves none.
LEMMA FollowsSmooth ==
    ASSUME NEW s, NEW t, Smooth(s), Follows(s, t)
    PROVE  Smooth(t)
BY DEF Smooth, Follows

-----------------------------------------------------------------------------
(* What they do meanwhile to the bridges, the types and what can be read.  *)

\* No channel changes its type.
SameTypes(s, t) == \A c \in Slot : t.channel[c].type = s.channel[c].type

\* What check_break_fd sends to descriptor f.
Restart(f) == [cmd |-> "RESTART_CLIENT_NTF", fd |-> f, arg |-> 1]

\* check_break_fd sends a packet.
LEMMA RestartPkg ==
    ASSUME NEW f \in Int
    PROVE  Restart(f) \in Pkg /\ Restart(f).fd = f
BY DEF Restart, Pkg, PKG_CMD_TYPE

\* A descriptor fits the head of a packet.
LEMMA FdInt ==
    ASSUME NEW x \in Channel
    PROVE  x.fd \in Int
<1>1. x.fd \in FD \cup {0}
  BY DEF Channel
<1>2. CASE x.fd = 0
  BY <1>2
<1>3. CASE x.fd \in FD
  <2>1. FD \subseteq Int
    BY NullNotFD
  <2> QED BY <1>3, <2>1
<1> QED BY <1>1, <1>2, <1>3

\* Sends that do not stop short are among the results of send().
LEMMA Results == {"all", "fail"} \subseteq SendResult
BY DEF SendResult

\* The components of a good state have their types.
LEMMA Parts ==
    ASSUME NEW s, Good(s)
    PROVE  /\ s.channel \in [Slot -> Channel]
           /\ s.channel_map \in [FD -> Slot \cup {NULL}]
           /\ s.bridge_map \in [FD -> Slot \cup {NULL}]
           /\ s.inbox \in [FD -> Seq(Pkg)]
           /\ s.open \subseteq FD
BY DEF Good, State

\* An entry that is found is usable.
LEMMA UsableOpen ==
    ASSUME NEW s, Good(s), NEW f
    PROVE  Usable(s, Find(s.channel_map, f)) <=> f \in s.open
BY DEF Good, State, MapSound, NoLeak, Usable, Find

\* Types that two functions keep are kept by both.
LEMMA SameTypesTwice ==
    ASSUME NEW s, NEW t, NEW u, SameTypes(s, t), SameTypes(t, u)
    PROVE  SameTypes(s, u)
BY DEF SameTypes

\* Channel c is overwritten with a record of the same type.
Patched(s, t) ==
    /\ SameTypes(s, t)
    /\ t.channel_map = s.channel_map /\ t.bridge_map = s.bridge_map
    /\ t.open = s.open /\ t.inbox = s.inbox /\ t.wire = s.wire /\ t.run = s.run

\* Overwriting fields of channels touches no map, and gives nobody packets.
LEMMA PatchEffect ==
    ASSUME NEW s, Good(s), NEW c \in Slot, NEW x, x.type = s.channel[c].type
    PROVE  Patched(s, [s EXCEPT !.channel[c] = x])
<1> DEFINE t == [s EXCEPT !.channel[c] = x]
<1>1. /\ t.channel = [s.channel EXCEPT ![c] = x]
      /\ t.channel_map = s.channel_map /\ t.bridge_map = s.bridge_map
      /\ t.open = s.open /\ t.inbox = s.inbox /\ t.wire = s.wire
      /\ t.run = s.run
  BY DEF Good, State
<1>2. s.channel \in [Slot -> Channel]
  BY Parts
<1> HIDE DEF t
<1>3. SameTypes(s, t)
  BY <1>1, <1>2 DEF SameTypes
<1> QED BY <1>1, <1>3 DEF t, Patched

\* The connection on f is gone.
Freed(s, t, f) ==
    /\ SameTypes(s, t) /\ t.bridge_map = s.bridge_map
    /\ \A g \in FD :
         /\ t.channel_map[g] = IF g = f THEN NULL ELSE s.channel_map[g]
         /\ t.inbox[g] = IF g = f THEN <<>> ELSE s.inbox[g]

\* free_channel takes the entry of its descriptor only.
LEMMA FreeEffect ==
    ASSUME NEW s, Good(s), NEW c \in Slot, NEW f \in FD, s.channel[c].fd = f
    PROVE  Freed(s, free_channel(s, c), f)
<1> DEFINE t == free_channel(s, c)
           x == [s.channel[c] EXCEPT !.status = "NON_ACTIVE", !.len = 0,
                                     !.recvOn = FALSE, !.sendOn = FALSE]
<1>1. /\ t.channel = [s.channel EXCEPT ![c] = x]
      /\ t.channel_map = [s.channel_map EXCEPT ![f] = NULL]
      /\ t.inbox = [s.inbox EXCEPT ![f] = <<>>]
      /\ t.bridge_map = s.bridge_map
  BY DEF free_channel, Good, State
<1>2. x.type = s.channel[c].type
  BY DEF Good, State, Channel
<1> HIDE DEF t, x
<1>3. SameTypes(s, t)
  BY <1>1, <1>2, Parts DEF SameTypes
<1>4. \A g \in FD :
        /\ t.channel_map[g] = IF g = f THEN NULL ELSE s.channel_map[g]
        /\ t.inbox[g] = IF g = f THEN <<>> ELSE s.inbox[g]
  BY <1>1, Parts
<1> QED BY <1>1, <1>3, <1>4 DEF t, Freed

\* A first send() of p to f: whole, it can be read by the peer if it fits.
Begun(s, t, f, p, out) ==
    /\ Good(t)
    /\ t.channel = s.channel /\ t.channel_map = s.channel_map
    /\ t.bridge_map = s.bridge_map /\ t.open = s.open /\ t.run = s.run
    /\ \A g \in FD \ {f} : t.inbox[g] = s.inbox[g] /\ t.wire[g] = s.wire[g]
    /\ t.inbox[f] \in {s.inbox[f], Append(s.inbox[f], p)}
    /\ s.wire[f] = Clean =>
         t.inbox[f] = IF out = "all" THEN Append(s.inbox[f], p) ELSE s.inbox[f]

\* A packet handed to the kernel reaches its peer only.
LEMMA BeginEffect ==
    ASSUME NEW s, Good(s), NEW f \in FD, NEW p \in Pkg, NEW out \in {"all", "fail"}
    PROVE  Begun(s, Begin(s, f, p, out), f, p, out)
<1> DEFINE t == Begin(s, f, p, out)
           m == [s.inbox EXCEPT ![f] = Append(@, p)]
<1>1. /\ Good(t)
      /\ t.channel = s.channel /\ t.channel_map = s.channel_map
      /\ t.bridge_map = s.bridge_map /\ t.open = s.open
  BY Results, BeginGood
<1>2. t.run = s.run /\ \A g \in FD \ {f} : t.wire[g] = s.wire[g]
  BY BeginWire
<1>3. t.inbox = s.inbox \/ t.inbox = m
  BY DEF Begin, Write, Good, State
<1>4. ASSUME s.wire[f] = Clean
      PROVE  t.inbox = IF out = "all" THEN m ELSE s.inbox
  <2>1. ~s.wire[f].torn /\ s.wire[f].due = ZeroPkg
    BY <1>4 DEF Clean
  <2> QED BY <2>1 DEF Begin, Write, Good, State
<1>5. m[f] = Append(s.inbox[f], p) /\ \A g \in FD \ {f} : m[g] = s.inbox[g]
  BY Parts
<1> HIDE DEF t, m
<1> QED BY <1>1, <1>2, <1>3, <1>4, <1>5 DEF t, Begun

\* response sent p, or failed to and freed the connection.
Responded(s, t, p, out) ==
    /\ Good(t)
    /\ SameTypes(s, t) /\ t.bridge_map = s.bridge_map
    /\ p.fd \notin s.open => t = s
    /\ \A f \in FD \ {p.fd} : /\ t.channel_map[f] = s.channel_map[f]
                             /\ t.inbox[f] = s.inbox[f]
    /\ out = "all" => t.channel_map = s.channel_map
    /\ p.fd \in s.open =>
         t.inbox[p.fd] \in {s.inbox[p.fd], Append(s.inbox[p.fd], p), <<>>}
    /\ p.fd \in s.open /\ out = "all" =>
         t.inbox[p.fd] \in {s.inbox[p.fd], Append(s.inbox[p.fd], p)}
    /\ p.fd \in s.open /\ s.wire[p.fd] = Clean /\ out = "all" =>
         t.inbox[p.fd] = Append(s.inbox[p.fd], p)

\* response() gives its packet to one peer, or frees the channel.
LEMMA ResponseEffect ==
    ASSUME NEW s, Good(s), NEW p \in Pkg, NEW out \in {"all", "fail"}
    PROVE  Responded(s, response(s, p, out), p, out)
<1> DEFINE t == response(s, p, out)
<1>1. Good(t)
  BY Results, ResponseGood
<1>2. CASE p.fd \notin s.open
  <2>1. t = s
    BY <1>2, UsableOpen DEF response
  <2> QED BY <1>1, <1>2, <2>1 DEF SameTypes, Responded
<1>3. CASE p.fd \in s.open
  <2> DEFINE c == Find(s.channel_map, p.fd)
             u == Begin(s, p.fd, p, out)
             x == [s.channel[c] EXCEPT !.len = 0, !.sendOn = s.channel[c].sendOn,
                                       !.recvOn = TRUE]
  <2>1. Usable(s, c)
    BY <1>3, UsableOpen
  <2>2. /\ p.fd \in FD /\ c \in Slot /\ s.channel[c] \in Channel
        /\ s.channel[c].fd = p.fd /\ s.channel_map[p.fd] = c
    BY <2>1, UsableFound
  <2>3. /\ out = "fail" => t = free_channel(u, c)
        /\ out = "all" => t = [u EXCEPT !.channel[c] = x]
    BY <2>1 DEF response
  <2>4. x.type = s.channel[c].type
    BY <2>2 DEF Channel
  <2> HIDE DEF c, x, t
  <2>5. Begun(s, u, p.fd, p, out)
    BY <2>2, BeginEffect
  <2> HIDE DEF u
  <2>6. CASE out = "fail"
    <3>1. Freed(u, t, p.fd)
      BY <2>2, <2>3, <2>5, <2>6, FreeEffect DEF Begun
    <3>2. SameTypes(s, t)
      BY <2>5, <3>1 DEF SameTypes, Begun, Freed
    <3> QED BY <1>1, <1>3, <2>2, <2>5, <2>6, <3>1, <3>2
            DEF Begun, Freed, Responded, t
  <2>7. CASE out = "all"
    <3>1. Patched(u, t)
      BY <2>2, <2>3, <2>4, <2>5, <2>7, PatchEffect DEF Begun
    <3>2. SameTypes(s, t)
      BY <2>5, <3>1 DEF SameTypes, Begun, Patched
    <3> QED BY <1>1, <1>3, <2>2, <2>5, <2>7, <3>1, <3>2
            DEF Begun, Patched, Responded, t
  <2> QED BY <2>6, <2>7
<1> QED BY <1>2, <1>3

\* check_break_fd told the raspi that f was bridged to, or failed to.
Broke(s, t, type, f, out) ==
    LET b == s.bridge_map[f]
        g == s.channel[b].fd
    IN  /\ Good(t)
        /\ SameTypes(s, t)
        /\ \A h \in FD :
             t.bridge_map[h] = IF h = f /\ type = "CTYPE_REMOTE" THEN NULL
                               ELSE s.bridge_map[h]
        /\ \A h \in FD : t.inbox[h] \in {s.inbox[h], <<>>,
                                        Append(s.inbox[h], Restart(h))}
        /\ out = "all" => t.channel_map = s.channel_map
        /\ type = "CTYPE_REMOTE" /\ b # NULL /\ g \in s.open
           /\ s.wire[g] = Clean /\ out = "all" =>
             t.inbox[g] = Append(s.inbox[g], Restart(g))

\* check_break_fd drops one bridge, and tells its raspi.
LEMMA BreakEffect ==
    ASSUME NEW s, Good(s), NEW type, NEW f \in FD, NEW out \in {"all", "fail"}
    PROVE  Broke(s, check_break_fd(s, type, f, out), type, f, out)
<1> DEFINE b == s.bridge_map[f]
           g == s.channel[b].fd
           t == check_break_fd(s, type, f, out)
<1>1. Good(t)
  BY Results, BreakGood
<1>2. CASE type # "CTYPE_REMOTE" \/ b = NULL
  <2>1. t = s
    BY <1>2 DEF check_break_fd
  <2> QED BY <1>1, <1>2, <2>1 DEF SameTypes, Broke
<1>3. CASE ~(type # "CTYPE_REMOTE" \/ b = NULL)
  <2> DEFINE u == response(s, Restart(g), out)
  <2>1. b \in Slot /\ s.channel[b] \in Channel
    BY <1>3, Parts
  <2>2. t = [u EXCEPT !.channel[b].status = "ACTIVE", !.bridge_map[f] = NULL]
    BY <1>3 DEF check_break_fd, Restart
  <2> HIDE DEF t, b
  <2>3. g \in Int
    BY <2>1, FdInt
  <2> HIDE DEF g
  <2>4. Restart(g) \in Pkg /\ Restart(g).fd = g
    BY <2>3, RestartPkg
  <2>5. Responded(s, u, Restart(g), out)
    BY <2>4, ResponseEffect
  <2> HIDE DEF u
  <2>6. /\ t.channel = [u.channel EXCEPT ![b] = [@ EXCEPT !.status = "ACTIVE"]]
        /\ t.bridge_map = [u.bridge_map EXCEPT ![f] = NULL]
        /\ t.channel_map = u.channel_map /\ t.inbox = u.inbox
    BY <2>1, <2>2, <2>5 DEF Responded, Good, State
  <2>7. SameTypes(u, t)
    <3>1. u.channel \in [Slot -> Channel]
      BY <2>5, Parts DEF Responded
    <3>2. [u.channel[b] EXCEPT !.status = "ACTIVE"].type = u.channel[b].type
      BY <2>1, <3>1 DEF Channel
    <3> QED BY <2>1, <2>6, <3>1, <3>2 DEF SameTypes
  <2>8. SameTypes(s, t)
    BY <2>5, <2>7, SameTypesTwice DEF Responded
  <2>9. \A h \in FD :
          t.bridge_map[h] = IF h = f /\ type = "CTYPE_REMOTE" THEN NULL
                            ELSE s.bridge_map[h]
    BY <1>3, <2>5, <2>6, Parts DEF Responded
  <2>10. \A h \in FD : u.inbox[h] \in {s.inbox[h], <<>>,
                                       Append(s.inbox[h], Restart(h))}
    BY <2>4, <2>5 DEF Responded
  <2>11. g \in s.open /\ s.wire[g] = Clean /\ out = "all" =>
           u.inbox[g] = Append(s.inbox[g], Restart(g))
    BY <2>4, <2>5 DEF Responded
  <2>12. out = "all" => u.channel_map = s.channel_map
    BY <2>5 DEF Responded
  <2> QED BY <1>1, <2>6, <2>8, <2>9, <2>10, <2>11, <2>12 DEF Broke, b, g, t
<1> QED BY <1>2, <1>3

\* Starting or stopping a watcher changes no map and no queue.
LEMMA IoEffect ==
    ASSUME NEW s, Good(s), NEW c \in Slot, NEW on
    PROVE  Patched(s, RecvIo(s, c, on)) /\ Patched(s, SendIo(s, c, on))
<1> DEFINE x == [s.channel[c] EXCEPT !.recvOn = on]
           y == [s.channel[c] EXCEPT !.sendOn = on]
<1>1. /\ RecvIo(s, c, on) = [s EXCEPT !.channel[c] = x]
      /\ SendIo(s, c, on) = [s EXCEPT !.channel[c] = y]
  BY DEF RecvIo, SendIo
<1>2. x.type = s.channel[c].type /\ y.type = s.channel[c].type
  BY DEF Good, State, Channel
<1> HIDE DEF x, y
<1> QED BY <1>1, <1>2, PatchEffect

\* The functions below start from a state in which nothing waits to be read.
Quiet(s) == \A f \in FD : s.inbox[f] = <<>>

\* Connection f has ended, and the raspi it was bridged to has been told.
Ended(s, t, f) ==
    LET b == s.bridge_map[f]
        remote == s.channel[s.channel_map[f]].type = "CTYPE_REMOTE"
        g == s.channel[b].fd
    IN  /\ \A h \in FD :
             /\ t.bridge_map[h] = IF h = f /\ remote THEN NULL ELSE s.bridge_map[h]
             /\ t.channel_map[h] = IF h = f THEN NULL ELSE s.channel_map[h]
        /\ remote /\ b # NULL /\ g \in s.open \ {f} => t.inbox[g] = <<Restart(g)>>

\* Only notifications of check_break_fd can be read.
Notified(t) == \A h \in FD : t.inbox[h] \in {<<>>, <<Restart(h)>>}

\* End of stream: the connection is closed, and its bridge dropped.
LEMMA PeerClosedEffect ==
    ASSUME NEW s, Smooth(s), Quiet(s), NEW f \in FD, s.channel_map[f] # NULL,
           NEW out \in {"all", "fail"}
    PROVE  LET t == PeerClosed(s, s.channel_map[f], out) IN
           /\ SameTypes(s, t) /\ Notified(t)
           /\ out = "all" => Ended(s, t, f)
<1> DEFINE c == s.channel_map[f]
           u == free_channel(s, c)
           t == PeerClosed(s, c, out)
           type == s.channel[c].type
<1>1. Good(s) /\ Watched(s) /\ c \in Slot /\ s.channel[c].fd = f
  BY Parts DEF Smooth, Good, MapSound
<1>2. t = check_break_fd(u, type, f, out)
  BY <1>1 DEF PeerClosed
<1> HIDE DEF c, t, type
<1>3. Freed(s, u, f)
  BY <1>1, FreeEffect
<1>4. Good(u) /\ SameFds(s, u) /\ \A g \in FD : u.wire[g] = Clean
  <2>1. s.channel_map[s.channel[c].fd] = c
    BY <1>1 DEF c
  <2>2. Follows(s, u)
    BY <1>1, <2>1, FreeFollows
  <2> QED BY <1>1, <2>2, FreeGood DEF Follows, Smooth
<1> HIDE DEF u
<1>5. Broke(u, t, type, f, out)
  BY <1>2, <1>4, BreakEffect
<1>6. \A h : Append(<<>>, Restart(h)) = <<Restart(h)>>
  OBVIOUS
<1>7. \A h \in FD : u.inbox[h] = <<>>
  BY <1>3 DEF Freed, Quiet
<1>8. Notified(t)
  BY <1>5, <1>6, <1>7 DEF Broke, Notified
<1>9. ASSUME out = "all" PROVE Ended(s, t, f)
  <2> DEFINE b == s.bridge_map[f]
             g == s.channel[b].fd
  <2>1. ASSUME type = "CTYPE_REMOTE", b # NULL, g \in s.open \ {f}
        PROVE  t.inbox[g] = <<Restart(g)>>
    <3>1. b \in Slot /\ g \in FD
      BY <1>1, <2>1, Parts
    <3>2. u.bridge_map[f] = b /\ u.channel[b].fd = g
      BY <1>3, <1>4, <3>1 DEF SameFds, Freed
    <3>3. u.channel_map[g] # NULL
      BY <1>1, <1>3, <2>1, <3>1 DEF Good, NoLeak, Freed
    <3>4. g \in u.open
      BY <1>4, <3>1, <3>3 DEF Good, NoLeak
    <3> HIDE DEF g, b
    <3>5. t.inbox[g] = Append(u.inbox[g], Restart(g))
      BY <1>4, <1>5, <1>9, <2>1, <3>1, <3>2, <3>4 DEF Broke
    <3> QED BY <1>6, <1>7, <3>1, <3>5
  <2>2. \A h \in FD :
          /\ t.bridge_map[h] = IF h = f /\ type = "CTYPE_REMOTE" THEN NULL
                               ELSE s.bridge_map[h]
          /\ t.channel_map[h] = IF h = f THEN NULL ELSE s.channel_map[h]
    BY <1>3, <1>5, <1>9 DEF Broke, Freed
  <2> QED BY <2>1, <2>2 DEF Ended, type, c
<1>10. SameTypes(s, t)
  BY <1>3, <1>5, SameTypesTwice DEF Broke, Freed
<1> QED BY <1>8, <1>9, <1>10 DEF t, c

\* A packet has been forwarded, or dropped, or cost its destination.
LEMMA DispatchEffect ==
    ASSUME NEW s, Smooth(s), Quiet(s), NEW p \in Pkg, NEW srcfd,
           NEW out \in {"all", "fail"}, NEW out2 \in {"all", "fail"}
    PROVE  LET t == dispatch(s, p, srcfd, out, out2) IN
           /\ SameTypes(s, t)
           /\ \/ /\ t.channel_map = s.channel_map /\ t.bridge_map = s.bridge_map
                 /\ \A h \in FD : t.inbox[h] \in {<<>>, <<p>>}
              \/ /\ p.fd \in s.open /\ Notified(t)
                 /\ out2 = "all" => Ended(s, t, p.fd)
<1> DEFINE src == Find(s.channel_map, srcfd)
           dst == Find(s.channel_map, p.fd)
           u == Begin(s, p.fd, p, out)
           x == [u.channel[dst] EXCEPT !.pkg = p,
                                       !.len = IF out = "some" THEN 1 ELSE 0]
           v == [u EXCEPT !.channel[dst] = x]
           t == dispatch(s, p, srcfd, out, out2)
<1>0. Good(s)
  BY DEF Smooth
<1>1. CASE ~Usable(s, src) \/ ~Usable(s, dst)
  <2>1. t = s
    BY <1>1 DEF dispatch
  <2> QED BY <2>1 DEF SameTypes, Quiet
<1>2. CASE Usable(s, src) /\ Usable(s, dst)
  <2>1. /\ p.fd \in FD /\ dst \in Slot /\ s.channel[dst] \in Channel
        /\ s.channel[dst].fd = p.fd /\ s.channel_map[p.fd] = dst
        /\ p.fd \in s.open
    BY <1>0, <1>2, UsableFound, UsableOpen
  <2>2. src \in Slot
    BY <1>0, <1>2, UsableFound
  <2>3. out = "all" => t = RecvIo(SendIo(v, dst, FALSE), src, TRUE)
    BY <1>2 DEF dispatch
  <2>4. out = "fail" =>
             t = free_channel(check_break_fd(v, v.channel[dst].type,
                                             v.channel[dst].fd, out2), dst)
    BY <1>2 DEF dispatch
  <2> HIDE DEF src, dst, t
  <2>5. Begun(s, u, p.fd, p, out)
    BY <1>0, <2>1, BeginEffect
  <2> HIDE DEF u
  <2>6. /\ x \in Channel
        /\ x.fd = p.fd /\ x.pkg = p /\ x.status = u.channel[dst].status
        /\ x.src = u.channel[dst].src /\ x.type = u.channel[dst].type
        /\ x.recvOn \/ x.sendOn => x.fd \in FD
    <3>1. (IF out = "some" THEN 1 ELSE 0) \in 0 .. PKG_UNITS
      BY Members
    <3>2. u.channel[dst] \in Channel /\ u.channel[dst].fd = p.fd
      BY <2>1, <2>5 DEF Begun
    <3> QED BY <2>1, <3>1, <3>2 DEF Channel
  <2> HIDE DEF x
  <2>7. Patched(u, v)
    BY <2>1, <2>5, <2>6, PatchEffect DEF Begun
  <2>8. Good(v) /\ SameFds(u, v)
    <3>1. x.src # NULL => u.channel[x.src].fd \in FD
      BY <2>1, <2>5, <2>6 DEF Good, Located, Begun
    <3> QED BY <2>1, <2>5, <2>6, <3>1, PatchGood DEF Begun
  <2> HIDE DEF v
  <2>9. /\ v.channel_map = s.channel_map /\ v.bridge_map = s.bridge_map
        /\ v.open = s.open /\ SameTypes(s, v)
        /\ \A g \in FD \ {p.fd} : v.wire[g] = Clean /\ v.inbox[g] = <<>>
        /\ v.inbox[p.fd] = IF out = "all" THEN <<p>> ELSE <<>>
    <3>1. Append(<<>>, p) = <<p>>
      OBVIOUS
    <3>2. s.wire[p.fd] = Clean /\ s.inbox[p.fd] = <<>>
      BY <2>1 DEF Smooth, Quiet
    <3>3. v.inbox[p.fd] = IF out = "all" THEN <<p>> ELSE <<>>
      BY <2>5, <2>7, <3>1, <3>2 DEF Begun, Patched
    <3>4. \A g \in FD \ {p.fd} : v.wire[g] = Clean /\ v.inbox[g] = <<>>
      BY <2>5, <2>7 DEF Begun, Patched, Smooth, Quiet
    <3> QED BY <2>5, <2>7, <3>3, <3>4 DEF Begun, Patched, SameTypes
  <2>10. CASE out = "all"
    <3> DEFINE w == SendIo(v, dst, FALSE)
    <3>1. Good(w) /\ Patched(v, w)
      <4>1. v.channel[dst].fd \in FD
        BY <2>1, <2>5, <2>8 DEF SameFds, Begun
      <4>2. Good(w)
        BY <2>1, <2>8, <4>1, IoGood
      <4> QED BY <2>1, <2>8, <4>2, IoEffect
    <3>2. t = RecvIo(w, src, TRUE)
      BY <2>3, <2>10
    <3> HIDE DEF w
    <3>3. Patched(w, t)
      BY <2>2, <3>1, <3>2, IoEffect
    <3>4. SameTypes(s, t)
      BY <2>9, <3>1, <3>3, SameTypesTwice DEF Patched
    <3>5. /\ t.channel_map = s.channel_map /\ t.bridge_map = s.bridge_map
          /\ t.inbox = v.inbox
      BY <2>9, <3>1, <3>3 DEF Patched
    <3>6. \A h \in FD : t.inbox[h] \in {<<>>, <<p>>}
      BY <2>9, <2>10, <3>5
    <3> QED BY <3>4, <3>5, <3>6 DEF t
  <2>11. CASE out = "fail"
    <3> DEFINE type == v.channel[dst].type
               w == check_break_fd(v, type, p.fd, out2)
    <3>1. v.channel[dst].fd = p.fd /\ type = s.channel[dst].type
      BY <2>1, <2>5, <2>8, <2>9 DEF SameFds, Begun, SameTypes
    <3>2. t = free_channel(w, dst)
      BY <2>4, <2>11, <3>1
    <3> HIDE DEF type
    <3>3. Broke(v, w, type, p.fd, out2) /\ SameFds(v, w)
      BY <2>1, <2>8, BreakEffect, BreakGood, Results
    <3> HIDE DEF w
    <3>4. Freed(w, t, p.fd)
      BY <2>1, <3>1, <3>2, <3>3, FreeEffect DEF Broke, SameFds
    <3>5. SameTypes(s, t)
      BY <2>9, <3>3, <3>4, SameTypesTwice DEF Broke, Freed
    <3>6. \A h : Append(<<>>, Restart(h)) = <<Restart(h)>>
      OBVIOUS
    <3>7. \A h \in FD : v.inbox[h] = <<>>
      BY <2>9, <2>11
    <3>8. Notified(t)
      <4>1. Notified(w)
        BY <3>3, <3>6, <3>7 DEF Broke, Notified
      <4> QED BY <3>4, <4>1 DEF Freed, Notified
    <3>9. ASSUME out2 = "all" PROVE Ended(s, t, p.fd)
      <4> DEFINE b == s.bridge_map[p.fd]
                 g == s.channel[b].fd
      <4>1. ASSUME type = "CTYPE_REMOTE", b # NULL, g \in s.open \ {p.fd}
            PROVE  t.inbox[g] = <<Restart(g)>>
        <5>1. b \in Slot /\ g \in FD
          BY <1>0, <2>1, <4>1, Parts
        <5>2. v.bridge_map[p.fd] = b /\ v.channel[b].fd = g
          BY <2>5, <2>8, <2>9, <5>1 DEF SameFds, Begun
        <5> HIDE DEF b, g
        <5>3. w.inbox[g] = Append(v.inbox[g], Restart(g))
          BY <2>9, <3>3, <3>9, <4>1, <5>1, <5>2 DEF Broke
        <5> QED BY <3>4, <3>6, <3>7, <4>1, <5>1, <5>3 DEF Freed
      <4>2. \A h \in FD :
              /\ t.bridge_map[h] = IF h = p.fd /\ type = "CTYPE_REMOTE" THEN NULL
                                   ELSE s.bridge_map[h]
              /\ t.channel_map[h] = IF h = p.fd THEN NULL ELSE s.channel_map[h]
        <5>1. \A h \in FD : t.bridge_map[h] =
                IF h = p.fd /\ type = "CTYPE_REMOTE" THEN NULL ELSE s.bridge_map[h]
          BY <2>9, <3>3, <3>4 DEF Broke, Freed
        <5>2. w.channel_map = s.channel_map
          BY <2>9, <3>3, <3>9 DEF Broke
        <5> QED BY <3>4, <5>1, <5>2 DEF Freed
      <4> QED BY <2>1, <3>1, <4>1, <4>2 DEF Ended
    <3> QED BY <2>1, <3>5, <3>8, <3>9 DEF t
  <2> QED BY <2>10, <2>11
<1> QED BY <1>1, <1>2

\* The client on f is told, unless it is a remote and the list is full.
Registered(s, t, p, f, out) ==
    LET c == s.channel_map[f]
        res == [cmd |-> "REGISTER_CLIENT_RES", fd |-> f, arg |-> 0]
        typed == [s EXCEPT !.channel[c].type = ClientType(p)]
    IN  /\ \A d \in Slot : t.channel[d].type = IF d = c THEN ClientType(p)
                                               ELSE s.channel[d].type
        /\ t.bridge_map = s.bridge_map
        /\ \A h \in FD : t.inbox[h] \in {<<>>, <<res>>}
        /\ \A h \in FD \ {f} : t.inbox[h] = <<>>
        /\ out = "all" =>
             /\ t.channel_map = s.channel_map
             /\ \/ t.inbox[f] = <<res>>
                \/ p.arg = 1 /\ Cardinality(Raspis(typed)) >= LIST_MAX

\* What the handler of a registration does is Registered.
LEMMA RegisterEffect ==
    ASSUME NEW s, Smooth(s), Quiet(s), NEW p \in Pkg, NEW f \in s.open,
           p.arg \in {0, 1}, NEW out \in {"all", "fail"}
    PROVE  Registered(s, handle_register_client_req(s, p, f, out), p, f, out)
<1> DEFINE c == s.channel_map[f]
           res == [cmd |-> "REGISTER_CLIENT_RES", fd |-> f, arg |-> 0]
           typed == [s EXCEPT !.channel[c].type = ClientType(p)]
           x == [s.channel[c] EXCEPT !.type = ClientType(p), !.pkg = res]
           u == [s EXCEPT !.channel[c] = x]
           t == handle_register_client_req(s, p, f, out)
           full == p.arg = 1 /\ Cardinality(Raspis(u)) >= LIST_MAX
<1>1. Good(s) /\ f \in FD /\ Usable(s, Find(s.channel_map, f))
  BY UsableOpen, Parts DEF Smooth
<1>2. Find(s.channel_map, f) = c
  BY <1>1 DEF Find
<1>3. c \in Slot /\ s.channel[c] \in Channel /\ s.channel[c].fd = f
  BY <1>1, <1>2, UsableFound
<1>4. t = IF full THEN u ELSE response(u, res, out)
  BY <1>1, <1>2 DEF handle_register_client_req
<1>5. res \in Pkg /\ res.fd = f
  BY <1>1, NullNotFD DEF Pkg, PKG_CMD_TYPE
<1>6. ClientType(p) \in CLIENT_TYPE
  BY DEF ClientType, CLIENT_TYPE
<1>7. Raspis(u) = Raspis(typed)
  <2>1. /\ u.channel = [s.channel EXCEPT ![c] = x]
        /\ typed.channel = [s.channel EXCEPT ![c] = [@ EXCEPT !.type = ClientType(p)]]
        /\ u.channel_map = s.channel_map /\ typed.channel_map = s.channel_map
    BY <1>1 DEF Good, State
  <2>2. x.type = ClientType(p) /\ x.status = s.channel[c].status
    BY <1>3 DEF Channel
  <2>3. \A d \in Slot : /\ u.channel[d].type = typed.channel[d].type
                        /\ u.channel[d].status = typed.channel[d].status
    <3> HIDE DEF x, c, u, typed
    <3> QED BY <1>1, <1>3, <2>1, <2>2, Parts DEF Channel
  <2>4. s.channel_map \in [FD -> Slot \cup {NULL}]
    BY <1>1, Parts
  <2> HIDE DEF u, typed
  <2>5. \A h \in FD :
          /\ Usable(u, u.channel_map[h]) <=> Usable(typed, typed.channel_map[h])
          /\ Usable(u, u.channel_map[h]) =>
               u.channel[u.channel_map[h]].type =
                 typed.channel[typed.channel_map[h]].type
    BY <2>1, <2>3, <2>4 DEF Usable
  <2> QED BY <2>5 DEF Raspis
<1> HIDE DEF c, res, typed, t
<1>8. /\ x \in Channel
      /\ x.fd = f /\ x.pkg = res /\ x.status = s.channel[c].status
      /\ x.src = s.channel[c].src /\ x.recvOn = s.channel[c].recvOn
      /\ x.sendOn = s.channel[c].sendOn /\ x.type = ClientType(p)
  BY <1>3, <1>5, <1>6 DEF Channel
<1> HIDE DEF x
<1>9. Good(u) /\ Follows(s, u)
  <2>1. x.src # NULL => s.channel[x.src].fd \in FD
    BY <1>1, <1>3, <1>8 DEF Good, Located
  <2>2. Good(u)
    BY <1>1, <1>3, <1>5, <1>8, <2>1, PatchGood
  <2> QED BY <1>1, <1>3, <1>8, <2>2, PatchFollows DEF Watched, Smooth
<1>10. /\ u.channel = [s.channel EXCEPT ![c] = x]
       /\ u.bridge_map = s.bridge_map /\ u.channel_map = s.channel_map
       /\ u.open = s.open /\ u.inbox = s.inbox /\ u.wire = s.wire
  BY <1>1 DEF Good, State
<1> HIDE DEF u
<1>11. \A d \in Slot : u.channel[d].type = IF d = c THEN ClientType(p)
                                           ELSE s.channel[d].type
  BY <1>1, <1>3, <1>8, <1>10, Parts
<1>12. CASE full
  BY <1>4, <1>7, <1>10, <1>11, <1>12 DEF Registered, Quiet, t, res, typed, c
<1>13. CASE ~full
  <2>1. Responded(u, t, res, out)
    BY <1>4, <1>5, <1>9, <1>13, ResponseEffect
  <2>2. Append(<<>>, res) = <<res>>
    OBVIOUS
  <2>3. u.wire[f] = Clean /\ \A h \in FD : u.inbox[h] = <<>>
    BY <1>1, <1>10 DEF Smooth, Quiet
  <2>4. \A d \in Slot : t.channel[d].type = IF d = c THEN ClientType(p)
                                            ELSE s.channel[d].type
    BY <1>11, <2>1 DEF Responded, SameTypes
  <2>5. t.bridge_map = s.bridge_map
    BY <1>10, <2>1 DEF Responded
  <2>6. /\ \A h \in FD \ {f} : t.inbox[h] = <<>>
        /\ t.inbox[f] \in {<<>>, <<res>>}
    <3>1. f \in u.open
      BY <1>10
    <3> QED BY <1>1, <1>5, <2>1, <2>2, <2>3, <3>1 DEF Responded
  <2>7. out = "all" => t.channel_map = s.channel_map /\ t.inbox[f] = <<res>>
    BY <1>1, <1>5, <1>10, <2>1, <2>2, <2>3 DEF Responded
  <2> QED BY <2>4, <2>5, <2>6, <2>7 DEF Registered, t, res, typed, c
<1> QED BY <1>12, <1>13

\* A bridge from f to what the viewer chose, unless it has one already.
Chosen(s, t, p, f, out, out2) ==
    LET g == p.arg
        res == [cmd |-> "CHOOSE_SERVER_RES", fd |-> f, arg |-> 0]
        ntf == [cmd |-> "START_SEND_DATA_NTF", fd |-> g, arg |-> f]
    IN  /\ SameTypes(s, t)
        /\ g \notin s.open => t = s
        /\ g \in s.open =>
             /\ t.bridge_map = Insert(s.bridge_map, f, s.channel_map[g])
             /\ t.inbox[f] \in {<<>>, <<res>>, <<ntf>>, Append(<<res>>, ntf)}
             /\ \A h \in FD \ {f} : t.inbox[h] \in {<<>>, <<ntf>>}
             /\ \A h \in FD \ {g} : t.inbox[h] \in {<<>>, <<res>>}
             /\ out = "all" /\ (f = g => out2 = "all") => t.inbox[f] # <<>>
             /\ out = "all" /\ out2 = "all" => t.channel_map = s.channel_map

\* What the handler of a choice does is Chosen.
LEMMA ChooseEffect ==
    ASSUME NEW s, Smooth(s), Quiet(s), NEW p \in Pkg, NEW f \in s.open,
           NEW out \in {"all", "fail"}, NEW out2 \in {"all", "fail"}
    PROVE  Chosen(s, handle_choose_server_req(s, p, f, out, out2), p, f, out, out2)
<1> DEFINE c == s.channel_map[f]
           g == p.arg
           r == s.channel_map[g]
           res == [cmd |-> "CHOOSE_SERVER_RES", fd |-> f, arg |-> 0]
           x == [s.channel[c] EXCEPT !.pkg = res]
           t0 == [s EXCEPT !.channel[c] = x]
           t1 == response(t0, res, out)
           m == [cmd |-> "START_SEND_DATA_NTF", fd |-> t1.channel[r].pkg.fd,
                 arg |-> f]
           y == [t1.channel[r] EXCEPT !.pkg = m]
           t2 == [t1 EXCEPT !.channel[r] = y]
           t3 == response(t2, m, out2)
           t == handle_choose_server_req(s, p, f, out, out2)
<1>1. Good(s) /\ f \in FD /\ Usable(s, Find(s.channel_map, f))
  BY UsableOpen, Parts DEF Smooth
<1>2. Find(s.channel_map, f) = c
  BY <1>1 DEF Find
<1>3. c \in Slot /\ s.channel[c] \in Channel /\ s.channel[c].fd = f
  BY <1>1, <1>2, UsableFound
<1>4. CASE g \notin s.open
  <2>1. t = s
    BY <1>1, <1>4, UsableOpen DEF handle_choose_server_req
  <2> QED BY <1>4, <2>1 DEF SameTypes, Chosen
<1>5. CASE g \in s.open
  <2>1. g \in FD /\ Usable(s, Find(s.channel_map, g)) /\ Find(s.channel_map, g) = r
    BY <1>1, <1>5, UsableOpen, Parts DEF Find
  <2>2. r \in Slot /\ s.channel[r] \in Channel /\ s.channel[r].fd = g
    BY <1>1, <2>1, UsableFound
  <2>3. t = [t3 EXCEPT !.bridge_map = Insert(t3.bridge_map, f, r)]
    BY <1>1, <1>2, <2>1 DEF handle_choose_server_req
  <2>4. res \in Pkg /\ res.fd = f
    BY <1>1, NullNotFD DEF Pkg, PKG_CMD_TYPE
  <2> HIDE DEF c, r, res, t
  <2>5. /\ x \in Channel
        /\ x.fd = f /\ x.pkg = res /\ x.status = s.channel[c].status
        /\ x.src = s.channel[c].src /\ x.recvOn = s.channel[c].recvOn
        /\ x.sendOn = s.channel[c].sendOn /\ x.type = s.channel[c].type
    BY <1>3, <2>4 DEF Channel
  <2> HIDE DEF x
  <2>6. Good(t0) /\ SameFds(s, t0) /\ t0.channel = [s.channel EXCEPT ![c] = x]
    <3>1. x.src # NULL => s.channel[x.src].fd \in FD
      BY <1>1, <1>3, <2>5 DEF Good, Located
    <3> QED BY <1>1, <1>3, <2>4, <2>5, <3>1, PatchGood
  <2>7. Patched(s, t0)
    BY <1>1, <1>3, <2>5, PatchEffect
  <2>8. t0.channel[r].pkg.fd \in {0, g}
    <3>1. s.channel[r].pkg.fd \in {0, g}
      BY <1>1, <2>1, <2>2, NullNotSlot DEF Good, Addressed, r
    <3>2. t0.channel[r] = IF r = c THEN x ELSE s.channel[r]
      BY <1>1, <1>3, <2>2, <2>6, Parts
    <3> QED BY <1>3, <2>2, <2>4, <2>5, <3>1, <3>2
  <2> HIDE DEF t0
  <2>9. Responded(t0, t1, res, out)
    BY <2>4, <2>6, ResponseEffect
  <2>10. SameFds(t0, t1) /\ SamePkgs(t0, t1)
    BY <2>4, <2>6, Results, ResponseGood
  <2> HIDE DEF t1
  <2>11. Good(t1)
    BY <2>9 DEF Responded
  <2>12. /\ t1.channel[r] \in Channel
         /\ t1.channel[r].fd = g
         /\ t1.channel[r].pkg.fd \in {0, g}
    BY <2>2, <2>6, <2>8, <2>10, <2>11, Parts DEF SameFds, SamePkgs
  <2>13. /\ m \in Pkg /\ m.fd \in {0, g}
         /\ m.fd = g => m = [cmd |-> "START_SEND_DATA_NTF", fd |-> g, arg |-> f]
    BY <1>1, <2>1, <2>12, NullNotFD DEF Pkg, PKG_CMD_TYPE
  <2> HIDE DEF m
  <2>14. /\ y \in Channel
         /\ y.fd = g /\ y.pkg = m /\ y.status = t1.channel[r].status
         /\ y.src = t1.channel[r].src /\ y.type = t1.channel[r].type
         /\ y.recvOn = t1.channel[r].recvOn /\ y.sendOn = t1.channel[r].sendOn
    BY <2>12, <2>13 DEF Channel
  <2> HIDE DEF y
  <2>15. Patched(t1, t2)
    BY <2>2, <2>11, <2>14, PatchEffect
  <2>16. Good(t2)
    <3>1. y.src # NULL => t1.channel[y.src].fd \in FD
      BY <2>2, <2>11, <2>14 DEF Good, Located
    <3>2. y.recvOn \/ y.sendOn => y.fd \in FD
      BY <2>1, <2>14
    <3> QED BY <2>2, <2>11, <2>12, <2>13, <2>14, <3>1, <3>2, PatchGood
  <2> HIDE DEF t2
  <2>17. Responded(t2, t3, m, out2)
    BY <2>13, <2>16, ResponseEffect
  <2> HIDE DEF t3
  <2>18. SameTypes(s, t3)
    BY <2>7, <2>9, <2>15, <2>17, SameTypesTwice DEF Patched, Responded
  <2>19. t3.bridge_map = s.bridge_map
    BY <2>7, <2>9, <2>15, <2>17 DEF Patched, Responded
  <2>20. /\ t.channel = t3.channel /\ t.channel_map = t3.channel_map
         /\ t.inbox = t3.inbox
         /\ t.bridge_map = Insert(s.bridge_map, f, r)
    BY <2>3, <2>17, <2>19 DEF Responded, Good, State
  <2>21. out = "all" /\ out2 = "all" => t.channel_map = s.channel_map
    BY <2>7, <2>9, <2>15, <2>17, <2>20 DEF Patched, Responded
  <2>22. /\ \A h \in FD \ {f} : t1.inbox[h] = <<>>
         /\ t1.inbox[f] \in {<<>>, <<res>>}
         /\ out = "all" => t1.inbox[f] = <<res>>
    <3>1. \A h \in FD : t0.inbox[h] = <<>> /\ t0.wire[h] = Clean
      BY <2>7 DEF Patched, Quiet, Smooth
    <3>2. Append(<<>>, res) = <<res>>
      OBVIOUS
    <3>3. f \in t0.open
      BY <2>7 DEF Patched
    <3> QED BY <1>1, <2>4, <2>9, <3>1, <3>2, <3>3 DEF Responded
  <2>23. \A h \in FD \ {g} : t3.inbox[h] = t1.inbox[h]
    BY <2>13, <2>15, <2>17, NullNotFD DEF Patched, Responded
  <2> DEFINE ntf == [cmd |-> "START_SEND_DATA_NTF", fd |-> g, arg |-> f]
  <2>24. /\ t3.inbox[g] \in {t1.inbox[g], Append(t1.inbox[g], ntf), <<>>}
         /\ out2 = "all" => t3.inbox[g] \in {t1.inbox[g], Append(t1.inbox[g], ntf)}
    <3>1. CASE m.fd = 0
      <4>1. m.fd \notin t2.open
        BY <2>16, <3>1, NullNotFD, Parts
      <4>2. t3 = t2
        BY <2>17, <4>1 DEF Responded
      <4> QED BY <2>15, <4>2 DEF Patched
    <3>2. CASE m.fd = g
      <4>1. t2.inbox = t1.inbox
        BY <2>15 DEF Patched
      <4>2. g \notin t2.open => t3 = t2
        BY <2>17, <3>2 DEF Responded
      <4>3. g \in t2.open =>
              /\ t3.inbox[g] \in {t2.inbox[g], Append(t2.inbox[g], m), <<>>}
              /\ out2 = "all" =>
                   t3.inbox[g] \in {t2.inbox[g], Append(t2.inbox[g], m)}
        BY <2>17, <3>2 DEF Responded
      <4> QED BY <2>13, <3>2, <4>1, <4>2, <4>3
    <3> QED BY <2>13, <3>1, <3>2
  <2> HIDE DEF ntf
  <2>25. Append(<<>>, ntf) = <<ntf>>
    OBVIOUS
  <2>26. /\ t.inbox[f] \in {<<>>, <<res>>, <<ntf>>, Append(<<res>>, ntf)}
         /\ \A h \in FD \ {f} : t.inbox[h] \in {<<>>, <<ntf>>}
         /\ \A h \in FD \ {g} : t.inbox[h] \in {<<>>, <<res>>}
    BY <1>1, <2>1, <2>20, <2>22, <2>23, <2>24, <2>25
  <2>27. out = "all" /\ (f = g => out2 = "all") => t.inbox[f] # <<>>
    <3>1. <<res>> # <<>> /\ Append(<<res>>, ntf) # <<>>
      OBVIOUS
    <3> QED BY <1>1, <2>20, <2>22, <2>23, <2>24, <2>25, <3>1
  <2>28. SameTypes(s, t)
    BY <2>18, <2>20 DEF SameTypes
  <2> QED BY <1>5, <2>20, <2>21, <2>26, <2>27, <2>28 DEF Chosen, t, res, ntf, r
<1> QED BY <1>4, <1>5

\* The next connection; the type is that of the channel's last use.
LEMMA AcceptEffect ==
    ASSUME NEW s, Smooth(s), NEW f \in FD \ s.open, NEW c \in Slot, FirstFree(s, c)
    PROVE  LET t == accept_cb(s, f, c) IN
           /\ SameTypes(s, t) /\ t.bridge_map = s.bridge_map /\ t.inbox = s.inbox
           /\ t.open = s.open \cup {f} /\ t.run = s.run
           /\ \A h \in FD : t.channel_map[h] = IF h = f THEN c ELSE s.channel_map[h]
<1> DEFINE t == accept_cb(s, f, c)
           x == [s.channel[c] EXCEPT !.fd = f, !.status = "ACTIVE",
                                     !.pkg = ZeroPkg, !.len = 0, !.recvOn = TRUE]
<1>1. Good(s) /\ Watched(s) /\ s.channel[c].status = "NON_ACTIVE"
  BY DEF Smooth, FirstFree
<1>2. ~s.channel[c].recvOn /\ ~s.channel[c].sendOn
  BY <1>1, NullNotSlot DEF Good, MapSound, Watched
<1>3. s.channel_map[f] = NULL
  BY <1>1 DEF Good, NoLeak
<1>4. /\ t.channel = [s.channel EXCEPT ![c] = x]
      /\ t.channel_map = [s.channel_map EXCEPT ![f] = c]
      /\ t.bridge_map = s.bridge_map /\ t.inbox = s.inbox
      /\ t.open = s.open \cup {f} /\ t.run = s.run
  BY <1>1, <1>2, <1>3 DEF accept_cb, get_free_channel, Insert, Good, State
<1>5. x.type = s.channel[c].type
  BY <1>1 DEF Good, State, Channel
<1> HIDE DEF t, x
<1>6. SameTypes(s, t)
  BY <1>1, <1>4, <1>5, Parts DEF SameTypes
<1>7. \A h \in FD : t.channel_map[h] = IF h = f THEN c ELSE s.channel_map[h]
  BY <1>1, <1>4, Parts
<1> QED BY <1>4, <1>6, <1>7 DEF t
===============================================================================
