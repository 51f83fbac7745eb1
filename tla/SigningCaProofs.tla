-------------------------- MODULE SigningCaProofs --------------------------
(***************************************************************************)
(* Proofs about SigningCa, for any files, any number of edits, any clock   *)
(* and any order of the walk through the inventory.                        *)
(***************************************************************************)
EXTENDS SigningCa, TLAPS

Signing == {"after", "before", "sign"}

\* A request goes through the reads of its own kind; it has seen the present.
Shape ==
    /\ pc # "idle" => resp = NoResponse /\ Now \in seen /\ req \in Requests
    /\ pc \in {"user_list", "template"} => req.op = "sign_user"
    /\ pc \in {"host_entry", "host_read"} => req.op = "sign_host"
    /\ pc \in Signing => req.op \in {"sign_user", "sign_host"}
    /\ pc \in {"scan", "scan_read"} => req.op = "check"
    /\ pc = "host_read" => TopPath(req.name) \in Paths
    /\ pc = "scan_read" => pos < Len(GlobOrder)

-----------------------------------------------------------------------------
(* Types. *)

LEMMA Facts ==
    /\ DefaultTemplate \in Templates /\ Unlisted \notin Templates
    /\ DaySeconds \in Nat /\ MaxClock \in Nat /\ MaxEdits \in Nat
    /\ Len(GlobOrder) \in Nat /\ DOMAIN GlobOrder = 1 .. Len(GlobOrder)
    /\ \A i \in 1 .. Len(GlobOrder) : GlobOrder[i] \in Paths
    /\ \A i, j \in 1 .. Len(GlobOrder) : GlobOrder[i] = GlobOrder[j] => i = j
    /\ Broken \notin TemplateTexts \cup HostEntries
    /\ \A t \in TemplateTexts \cup HostEntries : t.days \in Nat
BY FilesAssumption DEF Paths

LEMMA ShapeTypes == Init => TypeOK /\ Shape
<1> SUFFICES ASSUME Init PROVE TypeOK /\ Shape
  OBVIOUS
<1>1. /\ userList \in [Users -> Templates \cup {Unlisted}]
      /\ text \in [Templates -> TemplateTexts \cup {Broken}]
      /\ entry \in [Paths -> HostEntries \cup {Broken}] /\ out \subseteq Paths
  BY DEF Init
<1>2. /\ clock \in 0 .. MaxClock /\ edits \in 0 .. MaxEdits /\ pc = "idle"
      /\ req \in Requests \cup {NoRequest} /\ template \in Templates
      /\ after \in Nat /\ before \in Nat /\ pos \in 0 .. Len(GlobOrder)
  BY Facts DEF Init
<1>3. /\ DOMAIN defaults = {"days", "names"} /\ defaults.days \in Nat
      /\ resp.kind = "none"
  BY DEF Init, NoDefaults, NoResponse
<1> QED BY <1>1, <1>2, <1>3 DEF TypeOK, Shape, Signing

LEMMA StepTypes == TypeOK /\ Shape /\ [Next]_vars => TypeOK' /\ Shape'
<1> SUFFICES ASSUME TypeOK, Shape, [Next]_vars PROVE TypeOK' /\ Shape'
  OBVIOUS
<1> USE Facts DEF TypeOK, Shape, fileVars, Now, Signing
<1>1. CASE World
  <2>1. /\ UNCHANGED <<pc, req, template, defaults, after, before, pos, resp>>
        /\ pc # "idle" => Now' \in seen'
    BY <1>1 DEF World
  <2>2. CASE Edit
    BY <2>1, <2>2 DEF Edit
  <2>3. CASE SetClock
    BY <2>1, <2>3 DEF SetClock
  <2> QED BY <1>1, <2>2, <2>3 DEF World
<1>2. ASSUME NEW r \in Requests, Receive(r) PROVE TypeOK' /\ Shape'
  <2>1. r.op \in {"sign_user", "sign_host", "check"}
    BY DEF Requests
  <2>2. /\ pc' \in {"user_list", "host_entry", "scan"} /\ UNCHANGED fileVars
        /\ template' = DefaultTemplate /\ after' = 0 /\ before' = 0 /\ pos' = 0
        /\ req' = r /\ resp' = NoResponse /\ seen' = {Now}
        /\ pc' = "user_list" => r.op = "sign_user"
        /\ pc' = "host_entry" => r.op = "sign_host"
        /\ pc' = "scan" => r.op = "check"
    BY <1>2, <2>1 DEF Receive
  <2>3. DOMAIN defaults' = {"days", "names"} /\ defaults'.days \in Nat
    BY <1>2 DEF Receive, NoDefaults
  <2>4. resp'.kind = "none"
    BY <2>2 DEF NoResponse
  <2> QED BY <2>2, <2>3, <2>4
<1>n. req.op = "sign_user" /\ req \in Requests => req.name \in Users
  BY DEF Requests
<1>3. CASE ReadUserList
  <2>1. userList # Broken => Lookup(req.name) \in Templates
    BY <1>3, <1>n DEF ReadUserList, Lookup, TemplateOf
  <2> QED BY <1>3, <2>1 DEF ReadUserList, Respond, Fail
<1>4. CASE ReadTemplate
  <2>1. ASSUME text[template] # Broken
        PROVE  /\ DOMAIN Render(text[template], req.name) = {"days", "names"}
               /\ Render(text[template], req.name).days \in Nat
    BY <2>1 DEF Render
  <2> QED BY <1>4, <2>1 DEF ReadTemplate, Respond, Fail
<1>5. CASE ResolveHostEntry
  BY <1>5 DEF ResolveHostEntry, Respond, Fail, Inside
<1>6. CASE ReadHostEntry
  <2>1. CASE Fail /\ UNCHANGED defaults
    BY <1>6, <2>1 DEF ReadHostEntry, Respond, Fail
  <2>2. ASSUME NEW e, e = entry[TopPath(req.name)], e # Broken, pc' = "after",
               defaults' = [days |-> e.days, names |-> e.names], UNCHANGED resp,
               TopPath(req.name) \in Paths
        PROVE  TypeOK' /\ Shape'
    <3>1. e.days \in Nat
      BY <2>2
    <3> QED BY <1>6, <2>2, <3>1 DEF ReadHostEntry
  <2> QED BY <1>6, <2>1, <2>2 DEF ReadHostEntry
<1>7. CASE ReadValidAfter
  BY <1>7 DEF ReadValidAfter
<1>8. CASE ReadValidBefore
  <2>1. clock + defaults.days * DaySeconds \in Nat
    OBVIOUS
  <2> QED BY <1>8, <2>1 DEF ReadValidBefore
<1>9. CASE Sign
  BY <1>9 DEF Sign, Respond, Fail
<1>10. CASE ScanResolve
  BY <1>10 DEF ScanResolve, Exhausted
<1>11. CASE ScanRead
  BY <1>11 DEF ScanRead, Respond
<1>12. CASE ScanEnd
  BY <1>12 DEF ScanEnd, Respond
<1>13. CASE UNCHANGED vars
  BY <1>13 DEF vars
<1> QED BY <1>1, <1>2, <1>3, <1>4, <1>5, <1>6, <1>7, <1>8, <1>9, <1>10, <1>11, <1>12,
           <1>13 DEF Next, Handle

LEMMA TypesInductive == Spec => [](TypeOK /\ Shape)
BY ShapeTypes, StepTypes, PTL DEF Spec

(* Every reachable state is well typed. *)
THEOREM TypesHold == Spec => []TypeOK
<1>1. TypeOK /\ Shape => TypeOK
  OBVIOUS
<1> QED BY <1>1, TypesInductive, PTL

-----------------------------------------------------------------------------
(* What the operator does, or a new request, leaves of an old one. *)

LEMMA WorldOnlyAdds ==
    ASSUME World
    PROVE  /\ UNCHANGED <<pc, req, template, defaults, after, before, pos, resp>>
           /\ seen \subseteq seen'
BY DEF World

LEMMA HandleKeepsSeen ==
    ASSUME Handle \/ UNCHANGED vars PROVE UNCHANGED <<seen, req>>
BY DEF Handle, vars, ReadUserList, ReadTemplate, ResolveHostEntry, ReadHostEntry,
   ReadValidAfter, ReadValidBefore, Sign, ScanResolve, ScanRead, ScanEnd

LEMMA ReceiveStarts ==
    ASSUME NEW r \in Requests, Receive(r)
    PROVE  /\ req' = r /\ resp'.kind = "none"
           /\ pc' \in {"user_list", "host_entry", "scan"} /\ pos' = 0
<1>1. r.op \in {"sign_user", "sign_host", "check"}
  BY DEF Requests
<1> QED BY <1>1 DEF Receive, NoResponse

-----------------------------------------------------------------------------
(* Certificates for users. *)

\* During the request the list named a template that said d.
UserSource(d) ==
    \E s1, s2 \in seen :
        /\ s1.userList # Broken
        /\ LET t == TemplateOf(s1.userList, req.name) IN
           s2.text[t] # Broken /\ Render(s2.text[t], req.name) = d

UserInv ==
    req.op = "sign_user" =>
        /\ pc = "template" =>
              \E s \in seen : /\ s.userList # Broken
                              /\ template = TemplateOf(s.userList, req.name)
        /\ pc \in Signing => UserSource(defaults)
        /\ resp.kind = "cert" => UserSource([days |-> resp.days, names |-> resp.names])

LEMMA UserKeeps == TypeOK /\ Shape /\ UserInv /\ [Next]_vars => UserInv'
<1> SUFFICES ASSUME TypeOK, Shape, UserInv, [Next]_vars, req'.op = "sign_user" PROVE UserInv'
  BY DEF UserInv
<1> USE DEF UserInv, UserSource, Signing
<1>1. CASE World
  BY <1>1, WorldOnlyAdds
<1>2. ASSUME NEW r \in Requests, Receive(r) PROVE UserInv'
  BY <1>2, ReceiveStarts
<1>h. Handle \/ UNCHANGED vars => UNCHANGED <<seen, req>>
  BY HandleKeepsSeen
<1>o. pc # "idle" => resp.kind = "none"
  BY DEF Shape, NoResponse
<1>3. CASE ReadUserList
  <2>1. Now \in seen /\ Now.userList = userList
    BY <1>3 DEF ReadUserList, Shape, Now
  <2>2. UNCHANGED <<seen, req>>
    BY <1>3, <1>h DEF Handle
  <2>3. CASE Fail
    BY <2>2, <2>3 DEF Fail, Respond
  <2>4. CASE userList # Broken /\ template' = Lookup(req.name) /\ pc' = "template" /\ resp' = resp
    BY <1>3, <1>o, <2>1, <2>2, <2>4 DEF Lookup, ReadUserList
  <2> QED BY <1>3, <2>3, <2>4 DEF ReadUserList
<1>4. CASE ReadTemplate
  <2>1. Now \in seen /\ Now.text = text
    BY <1>4 DEF ReadTemplate, Shape, Now
  <2>2. UNCHANGED <<seen, req>> /\ pc = "template"
    BY <1>4, <1>h DEF Handle, ReadTemplate
  <2>3. CASE Fail
    BY <2>2, <2>3 DEF Fail, Respond
  <2>4. CASE text[template] # Broken /\ defaults' = Render(text[template], req.name)
             /\ pc' = "after" /\ resp' = resp
    <3>1. PICK s \in seen : s.userList # Broken /\ template = TemplateOf(s.userList, req.name)
      BY <2>2
    <3>2. UserSource(defaults)'
      BY <2>1, <2>2, <2>4, <3>1
    <3> QED BY <1>o, <2>2, <2>4, <3>2
  <2> QED BY <1>4, <2>3, <2>4 DEF ReadTemplate
<1>5. CASE ReadValidAfter \/ ReadValidBefore
  <2>1. UNCHANGED <<seen, req, defaults, resp>> /\ pc \in Signing /\ pc' # "template"
    BY <1>5, <1>h DEF Handle, ReadValidAfter, ReadValidBefore
  <2> QED BY <2>1, <1>o
<1>6. CASE Sign
  <2>1. UNCHANGED <<seen, req>> /\ pc = "sign" /\ pc' = "idle"
    BY <1>6, <1>h DEF Handle, Sign, Respond, Fail
  <2>2. CASE resp' = [kind |-> "cert", after |-> after, before |-> before,
                      days |-> defaults.days, names |-> defaults.names]
    <3>1. \E s1, s2 \in seen :
             /\ s1.userList # Broken
             /\ LET t == TemplateOf(s1.userList, req.name) IN
                s2.text[t] # Broken /\ Render(s2.text[t], req.name) = defaults
      BY <2>1
    <3>2. ASSUME NEW t, NEW u, Render(t, u) = defaults
          PROVE  Render(t, u) = [days |-> resp'.days, names |-> resp'.names]
      BY <2>2, <3>2 DEF Render
    <3> QED BY <2>1, <3>1, <3>2
  <2>3. CASE resp' = [kind |-> "error"]
    BY <2>1, <2>3
  <2> QED BY <1>6, <2>2, <2>3 DEF Sign, Respond, Fail
<1>7. CASE \/ ResolveHostEntry \/ ReadHostEntry \/ ScanResolve \/ ScanRead \/ ScanEnd
  BY <1>7, <1>h DEF Handle, ResolveHostEntry, ReadHostEntry, ScanResolve, ScanRead, ScanEnd,
     Shape
<1>8. CASE UNCHANGED vars
  BY <1>8 DEF vars
<1> QED BY <1>1, <1>2, <1>3, <1>4, <1>5, <1>6, <1>7, <1>8 DEF Next, Handle

(* user_defaults_reader.rs:54-108: a user certificate says what one template   *)
(* said, the one that was the user's during the request.                       *)
THEOREM UserCertHolds == Spec => []UserCertFollowsFiles
<1>1. Init => UserInv
  BY DEF Init, UserInv, NoRequest
<1>2. UserInv => UserCertFollowsFiles
  BY DEF UserInv, UserSource, UserCertFollowsFiles, Issued
<1> QED BY <1>1, <1>2, UserKeeps, TypesInductive, PTL DEF Spec

-----------------------------------------------------------------------------
(* Certificates for hosts. *)

\* During the request the entry was inside, and said d beside the signed key.
HostInside == \E s \in seen : TopPath(req.name) \notin s.out

HostSource(days, names) ==
    /\ HostInside
    /\ \E s \in seen : LET e == s.entry[TopPath(req.name)] IN
          e # Broken /\ e.key = req.key /\ e.names = names /\ e.days = days

HostInv ==
    req.op = "sign_host" =>
        /\ pc = "host_read" => HostInside
        /\ pc \in Signing => HostSource(defaults.days, defaults.names)
        /\ resp.kind = "cert" => HostSource(resp.days, resp.names)

LEMMA HostKeeps == TypeOK /\ Shape /\ HostInv /\ [Next]_vars => HostInv'
<1> SUFFICES ASSUME TypeOK, Shape, HostInv, [Next]_vars, req'.op = "sign_host" PROVE HostInv'
  BY DEF HostInv
<1> USE DEF HostInv, HostSource, HostInside, Signing
<1>1. CASE World
  BY <1>1, WorldOnlyAdds
<1>2. ASSUME NEW r \in Requests, Receive(r) PROVE HostInv'
  BY <1>2, ReceiveStarts
<1>h. Handle \/ UNCHANGED vars => UNCHANGED <<seen, req>>
  BY HandleKeepsSeen
<1>o. pc # "idle" => resp.kind = "none" /\ Now \in seen /\ Now.out = out /\ Now.entry = entry
  BY DEF Shape, NoResponse, Now
<1>3. CASE ResolveHostEntry
  BY <1>3, <1>h, <1>o DEF Handle, ResolveHostEntry, Respond, Fail, Inside
<1>4. CASE ReadHostEntry
  <2>1. UNCHANGED <<seen, req>> /\ pc = "host_read" /\ HostInside
    BY <1>4, <1>h DEF Handle, ReadHostEntry
  <2>2. CASE Fail
    BY <2>1, <2>2 DEF Fail, Respond
  <2>3. ASSUME NEW e, e = entry[TopPath(req.name)], e # Broken, e.key = req.key, pc' = "after",
               defaults' = [days |-> e.days, names |-> e.names], resp' = resp
        PROVE  HostInv'
    BY <1>o, <2>1, <2>3
  <2> QED BY <1>4, <2>2, <2>3 DEF ReadHostEntry, Matches
<1>5. CASE ReadValidAfter \/ ReadValidBefore
  <2>1. UNCHANGED <<seen, req, defaults, resp>> /\ pc \in Signing /\ pc' # "host_read"
    BY <1>5, <1>h DEF Handle, ReadValidAfter, ReadValidBefore
  <2> QED BY <2>1, <1>o
<1>6. CASE Sign
  <2>1. UNCHANGED <<seen, req>> /\ pc = "sign" /\ pc' = "idle"
    BY <1>6, <1>h DEF Handle, Sign, Respond, Fail
  <2> QED BY <1>6, <2>1 DEF Sign, Respond, Fail
<1>7. CASE ReadUserList \/ ReadTemplate \/ ScanResolve \/ ScanRead \/ ScanEnd
  BY <1>7, <1>h DEF Handle, ReadUserList, ReadTemplate, ScanResolve, ScanRead, ScanEnd, Shape
<1>8. CASE UNCHANGED vars
  BY <1>8 DEF vars
<1> QED BY <1>1, <1>2, <1>3, <1>4, <1>5, <1>6, <1>7, <1>8 DEF Next, Handle

(* mod.rs:150-174: the key of a host certificate was in the entry, with the    *)
(* names and the days it got, while the request ran.                           *)
THEOREM HostCertHolds == Spec => []HostKeyConfirmed
<1>1. Init => HostInv
  BY DEF Init, HostInv, NoRequest
<1>2. HostInv => HostKeyConfirmed
  BY DEF HostInv, HostSource, HostInside, HostKeyConfirmed, Issued
<1> QED BY <1>1, <1>2, HostKeeps, TypesInductive, PTL DEF Spec

-----------------------------------------------------------------------------
(* The interval of a certificate. *)

FromClock(t)     == \E s \in seen : t = s.clock
FromLater(t, d)  == \E s \in seen : t = s.clock + d * DaySeconds

ClockInv ==
    /\ pc \in {"before", "sign"} => FromClock(after)
    /\ pc = "sign" => FromLater(before, defaults.days)
    /\ resp.kind = "cert" => /\ resp.after <= resp.before
                             /\ FromClock(resp.after) /\ FromLater(resp.before, resp.days)

LEMMA ClockKeeps == TypeOK /\ Shape /\ ClockInv /\ [Next]_vars => ClockInv'
<1> SUFFICES ASSUME TypeOK, Shape, ClockInv, [Next]_vars PROVE ClockInv'
  OBVIOUS
<1> USE DEF ClockInv, FromClock, FromLater
<1>1. CASE World
  BY <1>1, WorldOnlyAdds
<1>2. ASSUME NEW r \in Requests, Receive(r) PROVE ClockInv'
  BY <1>2, ReceiveStarts
<1>h. Handle \/ UNCHANGED vars => UNCHANGED seen
  BY HandleKeepsSeen
<1>o. pc # "idle" => resp.kind = "none" /\ Now \in seen /\ Now.clock = clock
  BY DEF Shape, NoResponse, Now
<1>3. CASE ReadValidAfter
  BY <1>3, <1>h, <1>o DEF Handle, ReadValidAfter
<1>4. CASE ReadValidBefore
  BY <1>4, <1>h, <1>o DEF Handle, ReadValidBefore
<1>5. CASE Sign
  <2>1. seen' = seen /\ pc = "sign" /\ pc' = "idle"
    BY <1>5, <1>h DEF Handle, Sign, Respond, Fail
  <2> QED BY <1>5, <2>1 DEF Sign, Respond, Fail, Buildable
<1>6. CASE \/ ReadUserList \/ ReadTemplate \/ ResolveHostEntry \/ ReadHostEntry
           \/ ScanResolve \/ ScanRead \/ ScanEnd
  <2>1. resp'.kind # "cert" /\ pc' \notin {"before", "sign"}
    BY <1>6, <1>o DEF ReadUserList, ReadTemplate, ResolveHostEntry, ReadHostEntry,
       ScanResolve, ScanRead, ScanEnd, Respond, Fail
  <2> QED BY <2>1
<1>7. CASE UNCHANGED vars
  BY <1>7 DEF vars
<1> QED BY <1>1, <1>2, <1>3, <1>4, <1>5, <1>6, <1>7 DEF Next, Handle

(* mod.rs:94-104, 175-187: both ends of an interval were read while the        *)
(* request ran, and it does not end before it starts.                          *)
THEOREM IntervalHolds == Spec => []IntervalFromRequest
<1>1. Init => ClockInv
  BY DEF Init, ClockInv, NoResponse
<1>2. ClockInv => IntervalFromRequest
  BY DEF ClockInv, FromClock, FromLater, IntervalFromRequest
<1> QED BY <1>1, <1>2, ClockKeeps, TypesInductive, PTL DEF Spec

-----------------------------------------------------------------------------
(* The walk through the inventory. *)

\* Each file that the walk passed had at some moment not the key or been outside.
Passed(n) == \A i \in 1 .. n : \E s \in seen : ~Eligible(s, GlobOrder[i], req.key)

ScanInv ==
    req.op = "check" =>
        /\ pc \in {"scan", "scan_read"} => Passed(pos)
        /\ pc = "scan_read" => \E s \in seen : GlobOrder[pos + 1] \notin s.out
        /\ resp.kind = "not_found" => Passed(Len(GlobOrder))
        /\ resp.kind = "found" =>
              \E n \in 1 .. Len(GlobOrder) :
                  /\ resp.path = GlobOrder[n] /\ Passed(n - 1)
                  /\ \E s \in seen : Holds(s, GlobOrder[n], req.key)
                  /\ \E s \in seen : GlobOrder[n] \notin s.out

LEMMA ScanKeeps == TypeOK /\ Shape /\ ScanInv /\ [Next]_vars => ScanInv'
<1> SUFFICES ASSUME TypeOK, Shape, ScanInv, [Next]_vars, req'.op = "check" PROVE ScanInv'
  BY DEF ScanInv
<1> USE DEF ScanInv, Passed
<1>1. CASE World
  BY <1>1, WorldOnlyAdds
<1>2. ASSUME NEW r \in Requests, Receive(r) PROVE ScanInv'
  BY <1>2, ReceiveStarts
<1>h. Handle \/ UNCHANGED vars => UNCHANGED <<seen, req>>
  BY HandleKeepsSeen
<1>o. pc # "idle" => resp.kind = "none" /\ Now \in seen /\ Now.out = out /\ Now.entry = entry
  BY DEF Shape, NoResponse, Now
<1>p. pos \in Nat /\ Len(GlobOrder) \in Nat
  BY Facts DEF TypeOK
<1>n. ASSUME \E s \in seen : ~Eligible(s, GlobOrder[pos + 1], req.key), Passed(pos),
             pos' = pos + 1, UNCHANGED <<seen, req>>
      PROVE  Passed(pos)'
  BY <1>n, <1>p
<1>3. CASE ScanResolve
  <2>1. UNCHANGED <<seen, req, resp>> /\ pc = "scan" /\ Passed(pos) /\ pos + 1 <= Len(GlobOrder)
    BY <1>3, <1>h, <1>p DEF Handle, ScanResolve, Exhausted
  <2>2. GlobOrder[pos + 1] \in Paths
    BY <1>p, <2>1, Facts
  <2>3. CASE pc' = "scan_read" /\ pos' = pos /\ Inside(GlobOrder[pos + 1])
    BY <1>o, <2>1, <2>3 DEF Inside
  <2>4. CASE /\ ~Inside(GlobOrder[pos + 1]) \/ entry[GlobOrder[pos + 1]] = Broken
             /\ pos' = pos + 1 /\ pc' = pc
    <3>1. ~Eligible(Now, GlobOrder[pos + 1], req.key)
      BY <1>o, <2>1, <2>2, <2>4 DEF Inside, Eligible, Holds
    <3> QED BY <1>n, <1>o, <2>1, <2>4, <3>1
  <2> QED BY <1>3, <2>3, <2>4 DEF ScanResolve
<1>4. CASE ScanRead
  <2>1. /\ UNCHANGED <<seen, req>> /\ pc = "scan_read" /\ Passed(pos)
        /\ pos + 1 <= Len(GlobOrder) /\ \E s \in seen : GlobOrder[pos + 1] \notin s.out
    BY <1>4, <1>h, <1>p DEF Handle, ScanRead, Shape
  <2> DEFINE p == GlobOrder[pos + 1]
  <2>2. CASE (entry[p] = Broken \/ entry[p].key # req.key) /\ pos' = pos + 1 /\ pc' = "scan"
             /\ resp' = resp
    <3>1. ~Eligible(Now, p, req.key)
      BY <1>o, <2>1, <2>2 DEF Eligible, Holds
    <3> QED BY <1>n, <1>o, <2>1, <2>2, <3>1
  <2>3. CASE /\ entry[p] # Broken /\ entry[p].key = req.key
             /\ resp' = [kind |-> "found", path |-> p] /\ pc' = "idle"
    <3>1. Holds(Now, p, req.key)
      BY <1>o, <2>1, <2>3 DEF Holds
    <3>2. pos + 1 \in 1 .. Len(GlobOrder) /\ Passed((pos + 1) - 1)
      BY <1>p, <2>1
    <3> QED BY <1>o, <2>1, <2>3, <3>1, <3>2
  <2> QED BY <1>4, <2>2, <2>3 DEF ScanRead, Matches, Respond
<1>5. CASE ScanEnd
  <2>1. UNCHANGED <<seen, req>> /\ pc = "scan" /\ Passed(pos) /\ pos = Len(GlobOrder)
        /\ pc' = "idle" /\ resp' = [kind |-> "not_found"]
    BY <1>5, <1>h, <1>p DEF Handle, ScanEnd, Exhausted, Respond, TypeOK
  <2> QED BY <2>1
<1>6. CASE \/ ReadUserList \/ ReadTemplate \/ ResolveHostEntry \/ ReadHostEntry
           \/ ReadValidAfter \/ ReadValidBefore \/ Sign
  BY <1>6, <1>h DEF Handle, ReadUserList, ReadTemplate, ResolveHostEntry, ReadHostEntry,
     ReadValidAfter, ReadValidBefore, Sign, Shape, Signing
<1>7. CASE UNCHANGED vars
  BY <1>7 DEF vars
<1> QED BY <1>1, <1>2, <1>3, <1>4, <1>5, <1>6, <1>7 DEF Next, Handle

(* host_config_reader.rs:82-163: a walk that races with the operator loses no  *)
(* key, invents none and takes the first.                                      *)
THEOREM ScanHolds == Spec => []ScanSound
<1>1. Init => ScanInv
  BY DEF Init, ScanInv, NoRequest
<1>2. ScanInv => ScanSound
  <2> SUFFICES ASSUME ScanInv, req.op = "check" PROVE ScanSound
    BY DEF ScanSound
  <2>1. ASSUME resp.kind = "not_found", NEW p \in Paths
        PROVE  \E s \in seen : ~Eligible(s, p, req.key)
    BY <2>1, Facts DEF ScanInv, Passed, Paths
  <2>2. ASSUME resp.kind = "found"
        PROVE  /\ \E s \in seen : Holds(s, resp.path, req.key)
               /\ \E s \in seen : resp.path \notin s.out
               /\ \A i, j \in DOMAIN GlobOrder :
                    i < j /\ GlobOrder[j] = resp.path =>
                       \E s \in seen : ~Eligible(s, GlobOrder[i], req.key)
    <3>1. PICK n \in 1 .. Len(GlobOrder) :
                  /\ resp.path = GlobOrder[n] /\ Passed(n - 1)
                  /\ \E s \in seen : Holds(s, GlobOrder[n], req.key)
                  /\ \E s \in seen : GlobOrder[n] \notin s.out
      BY <2>2 DEF ScanInv
    <3>2. ASSUME NEW i \in DOMAIN GlobOrder, NEW j \in DOMAIN GlobOrder, i < j,
                 GlobOrder[j] = resp.path
          PROVE  \E s \in seen : ~Eligible(s, GlobOrder[i], req.key)
      <4>1. j = n /\ i \in 1 .. (n - 1)
        BY <3>1, <3>2, Facts
      <4> QED BY <3>1, <4>1 DEF Passed
    <3> QED BY <3>1, <3>2
  <2> QED BY <2>1, <2>2 DEF ScanSound
<1> QED BY <1>1, <1>2, ScanKeeps, TypesInductive, PTL DEF Spec

-----------------------------------------------------------------------------
(* Every request comes to an end. *)

FilesLeft == Len(GlobOrder) - pos

\* The reads still to make for the request being served; two for each file.
ReadsLeft ==
    CASE pc = "idle"                       -> 0
      [] pc = "sign"                       -> 1
      [] pc = "before"                     -> 2
      [] pc = "after"                      -> 3
      [] pc \in {"template", "host_read"}  -> 4
      [] pc \in {"user_list", "host_entry"} -> 5
      [] pc = "scan"                       -> 2 * FilesLeft + 1
      [] pc = "scan_read"                  -> 2 * FilesLeft

\* Whatever the operator and the clock do, the request makes headway.
RequestAdvances ==
    /\ Handle => ReadsLeft' < ReadsLeft
    /\ World => ReadsLeft' = ReadsLeft

LEMMA ReadsLeftNat == TypeOK => ReadsLeft \in Nat
<1> SUFFICES ASSUME TypeOK PROVE ReadsLeft \in Nat
  OBVIOUS
<1>1. FilesLeft \in Nat
  BY Facts DEF TypeOK, FilesLeft
<1>2. pc \in {"idle", "user_list", "template", "host_entry", "host_read", "after",
              "before", "sign", "scan", "scan_read"}
  BY DEF TypeOK
<1> QED BY <1>1, <1>2 DEF ReadsLeft

LEMMA HandleAdvances ==
    ASSUME TypeOK, Shape, Handle
    PROVE  ReadsLeft' < ReadsLeft
<1>f. /\ FilesLeft \in Nat /\ pos \in Nat /\ Len(GlobOrder) \in Nat
      /\ FilesLeft = Len(GlobOrder) - pos /\ FilesLeft' = Len(GlobOrder) - pos'
  BY Facts DEF TypeOK, FilesLeft
<1>e. ASSUME pc # "idle", pc' = "idle" PROVE ReadsLeft' < ReadsLeft
  <2>1. ReadsLeft' = 0
    BY <1>e DEF ReadsLeft
  <2>2. pc = "scan_read" => pos < Len(GlobOrder)
    BY DEF Shape
  <2>3. pc \in {"user_list", "template", "host_entry", "host_read", "after",
                "before", "sign", "scan", "scan_read"}
    BY <1>e DEF TypeOK
  <2>4. ReadsLeft > 0
    BY <1>f, <2>2, <2>3 DEF ReadsLeft
  <2> QED BY <2>1, <2>4
<1>1. CASE ReadUserList
  <2>1. CASE pc' = "template"
    <3>1. ReadsLeft = 5 /\ ReadsLeft' = 4
      BY <1>1, <2>1 DEF ReadUserList, ReadsLeft
    <3> QED BY <3>1
  <2> QED BY <1>1, <1>e, <2>1 DEF ReadUserList, Fail, Respond
<1>2. CASE ReadTemplate
  <2>1. CASE pc' = "after"
    <3>1. ReadsLeft = 4 /\ ReadsLeft' = 3
      BY <1>2, <2>1 DEF ReadTemplate, ReadsLeft
    <3> QED BY <3>1
  <2> QED BY <1>2, <1>e, <2>1 DEF ReadTemplate, Fail, Respond
<1>3. CASE ResolveHostEntry
  <2>1. CASE pc' = "host_read"
    <3>1. ReadsLeft = 5 /\ ReadsLeft' = 4
      BY <1>3, <2>1 DEF ResolveHostEntry, ReadsLeft
    <3> QED BY <3>1
  <2> QED BY <1>3, <1>e, <2>1 DEF ResolveHostEntry, Fail, Respond
<1>4. CASE ReadHostEntry
  <2>1. CASE pc' = "after"
    <3>1. ReadsLeft = 4 /\ ReadsLeft' = 3
      BY <1>4, <2>1 DEF ReadHostEntry, ReadsLeft
    <3> QED BY <3>1
  <2> QED BY <1>4, <1>e, <2>1 DEF ReadHostEntry, Fail, Respond
<1>5. CASE ReadValidAfter
  <2>1. ReadsLeft = 3 /\ ReadsLeft' = 2
    BY <1>5 DEF ReadValidAfter, ReadsLeft
  <2> QED BY <2>1
<1>6. CASE ReadValidBefore
  <2>1. ReadsLeft = 2 /\ ReadsLeft' = 1
    BY <1>6 DEF ReadValidBefore, ReadsLeft
  <2> QED BY <2>1
<1>7. CASE Sign
  BY <1>7, <1>e DEF Sign, Fail, Respond
<1>8. CASE ScanResolve
  <2>1. ReadsLeft = 2 * FilesLeft + 1
    BY <1>8 DEF ScanResolve, ReadsLeft
  <2>2. CASE pos' = pos + 1 /\ UNCHANGED pc
    <3>1. ReadsLeft' = 2 * FilesLeft' + 1
      BY <1>8, <2>2 DEF ScanResolve, ReadsLeft
    <3> QED BY <1>f, <2>1, <2>2, <3>1
  <2>3. CASE pc' = "scan_read" /\ UNCHANGED pos
    <3>1. ReadsLeft' = 2 * FilesLeft'
      BY <2>3 DEF ReadsLeft
    <3> QED BY <1>f, <2>1, <2>3, <3>1
  <2> QED BY <1>8, <2>2, <2>3 DEF ScanResolve
<1>9. CASE ScanRead
  <2>1. ReadsLeft = 2 * FilesLeft
    BY <1>9 DEF ScanRead, ReadsLeft
  <2>2. CASE pos' = pos + 1 /\ pc' = "scan"
    <3>1. ReadsLeft' = 2 * FilesLeft' + 1
      BY <2>2 DEF ReadsLeft
    <3> QED BY <1>f, <2>1, <2>2, <3>1
  <2> QED BY <1>9, <1>e, <2>2 DEF ScanRead, Respond
<1>10. CASE ScanEnd
  BY <1>10, <1>e DEF ScanEnd, Respond
<1> QED BY <1>1, <1>2, <1>3, <1>4, <1>5, <1>6, <1>7, <1>8, <1>9, <1>10 DEF Handle

(* host_config_reader.rs:82-163, mod.rs:83-214: a request is answered after at  *)
(* most five reads, or two for each file of the inventory and one more, however *)
(* the operator edits the files meanwhile: no edit sends it back.               *)
THEOREM RequestsAreFinite == Spec => [](ReadsLeft \in Nat) /\ [][RequestAdvances]_vars
<1>1. TypeOK /\ Shape => ReadsLeft \in Nat
  BY ReadsLeftNat
<1>2. TypeOK /\ Shape /\ [Next]_vars => [RequestAdvances]_vars
  <2> SUFFICES ASSUME TypeOK, Shape PROVE RequestAdvances
    OBVIOUS
  <2>1. World => ReadsLeft' = ReadsLeft
    BY DEF World, ReadsLeft, FilesLeft
  <2> QED BY <2>1, HandleAdvances DEF RequestAdvances
<1> QED BY <1>1, <1>2, TypesInductive, PTL DEF Spec
=============================================================================
