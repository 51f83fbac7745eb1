----------------------------- MODULE SigningCa -----------------------------
(***************************************************************************)
(* CertificateAuthority: what one request reads and signs.                 *)
(*                                                                         *)
(* The CA keeps nothing in memory but its key.  Every request reads the    *)
(* operator's files again: signing for a user reads user_list_file, then   *)
(* the template it names; signing for a host reads the host's entry in the *)
(* inventory; a key check walks the whole inventory.  Then the clock is    *)
(* read, twice.  The operator edits the files while requests are served    *)
(* (maintenance.md: "No restart. The next request reads the new files."),  *)
(* so an edit can fall between any two of these reads.                     *)
(*                                                                         *)
(* CaServer handles one request at a time; requests follow one another.    *)
(***************************************************************************)
EXTENDS Integers, Sequences, FiniteSets

CONSTANTS
    Users, Hosts,      \* names in requests
    Keys,              \* public keys (their key_data)
    Templates,         \* user template files
    DefaultTemplate,   \* default_user_template
    TemplateTexts,     \* what a template may say: [days, names]
    HostEntries,       \* what an entry may say: [key, days, names]
    Self,              \* {{ user_name }} in a template
    GlobOrder,         \* the paths of the inventory in the order of glob()
    Unlisted,          \* the user list does not name the user
    Broken,            \* absent, unreadable, not TOML, above MAX_TEMPLATE_SIZE
    DaySeconds,        \* 86400
    MaxClock,          \* bound: last second of the model
    MaxEdits           \* bound: edits of the operator

Paths == {GlobOrder[i] : i \in DOMAIN GlobOrder}
TopPath(h) == [nested |-> FALSE, stem |-> h]   \* {host_inventory}/{host}.toml

ASSUME FilesAssumption ==
    /\ DefaultTemplate \in Templates /\ Unlisted \notin Templates
    /\ GlobOrder \in Seq([nested : BOOLEAN, stem : Hosts])
    /\ \A i, j \in DOMAIN GlobOrder : GlobOrder[i] = GlobOrder[j] => i = j
    /\ Broken \notin TemplateTexts \cup HostEntries
    /\ \A t \in TemplateTexts \cup HostEntries : t.days \in Nat
    /\ {DaySeconds, MaxClock, MaxEdits} \subseteq Nat

Requests ==
    [op : {"sign_user"}, name : Users, key : Keys] \cup
    [op : {"sign_host"}, name : Hosts, key : Keys] \cup
    [op : {"check"}, name : {""}, key : Keys]

VARIABLES
    userList,      \* user_list_file: user -> template, or Broken
    text,          \* text[t]: contents of template t
    entry,         \* entry[p]: contents of inventory file p
    out,           \* inventory files that are links out of the inventory
    clock,         \* SystemTime::now() in seconds
    edits,
    pc,            \* the next read of the request being served
    req,           \* that request
    template,      \* template_path
    defaults,      \* UserDefaults or HostConfig as read
    after, before, \* valid_after, valid_before
    pos,           \* files of the inventory already looked at
    resp,          \* the last response
    seen           \* history: states of files and clock during the request

fileVars == <<userList, text, entry, out, clock, edits>>
vars     == <<userList, text, entry, out, clock, edits, pc, req, template, defaults,
              after, before, pos, resp, seen>>

NoDefaults == [days |-> 0, names |-> {}]
NoRequest  == [op |-> "none"]
NoResponse == [kind |-> "none"]

\* A request sees the files change while it runs.
Now == [userList |-> userList, text |-> text, entry |-> entry, out |-> out,
        clock |-> clock]

Init ==
    /\ userList \in [Users -> Templates \cup {Unlisted}]
    /\ text     \in [Templates -> TemplateTexts]
    /\ entry    \in [Paths -> HostEntries \cup {Broken}]
    /\ out \in SUBSET Paths
    /\ clock = 0 /\ edits = 0
    /\ pc = "idle" /\ req = NoRequest /\ resp = NoResponse
    /\ template = DefaultTemplate /\ defaults = NoDefaults
    /\ after = 0 /\ before = 0 /\ pos = 0
    /\ seen = {}

-----------------------------------------------------------------------------
(* The operator and the clock, at any moment. *)

Edit ==
    /\ edits < MaxEdits /\ edits' = edits + 1
    /\ \/ /\ \/ userList' \in [Users -> Templates \cup {Unlisted}]
             \/ userList' = Broken
          /\ UNCHANGED <<text, entry, out>>
       \/ /\ \E t \in Templates, v \in TemplateTexts \cup {Broken} :
                 text' = [text EXCEPT ![t] = v]
          /\ UNCHANGED <<userList, entry, out>>
       \/ /\ \E p \in Paths, v \in HostEntries \cup {Broken} :
                 /\ entry' = [entry EXCEPT ![p] = v]
                 /\ out' \in {out \cup {p}, out \ {p}}
          /\ UNCHANGED <<userList, text>>
    /\ UNCHANGED clock

\* Seconds pass, or the clock is set.
SetClock ==
    /\ clock' \in 0 .. MaxClock
    /\ UNCHANGED <<userList, text, entry, out, edits>>

World ==
    /\ Edit \/ SetClock
    /\ seen' = IF pc = "idle" THEN seen ELSE seen \cup {Now'}
    /\ UNCHANGED <<pc, req, template, defaults, after, before, pos, resp>>

-----------------------------------------------------------------------------
(* One request.  Each action reads one file or the clock. *)

Receive(r) ==
    /\ pc = "idle"
    /\ req'  = r
    /\ pc'   = CASE r.op = "sign_user" -> "user_list"
                 [] r.op = "sign_host" -> "host_entry"
                 [] r.op = "check"     -> "scan"
    /\ resp' = NoResponse
    /\ seen' = {Now}
    /\ template' = DefaultTemplate /\ defaults' = NoDefaults
    /\ after' = 0 /\ before' = 0 /\ pos' = 0
    /\ UNCHANGED fileVars

Respond(r) == resp' = r /\ pc' = "idle"
Fail       == Respond([kind |-> "error"])

\* The template of a user that the list does not name.
TemplateOf(list, u) == IF list[u] = Unlisted THEN DefaultTemplate ELSE list[u]

\* Seeded faults: everybody gets the default template; the default is missing.
LookupDefault(u) == DefaultTemplate
LookupListed(u)  == userList[u]

Lookup(u) == TemplateOf(userList, u)

ReadUserList ==
    /\ pc = "user_list"
    /\ \/ userList = Broken /\ Fail /\ UNCHANGED template
       \/ /\ userList # Broken
          /\ template' = Lookup(req.name)
          /\ pc' = "template"
          /\ UNCHANGED resp
    /\ UNCHANGED <<fileVars, req, defaults, after, before, pos, seen>>

Render(t, u) ==
    [days |-> t.days, names |-> {IF n = Self THEN u ELSE n : n \in t.names}]

ReadTemplate ==
    /\ pc = "template"
    /\ \/ text[template] = Broken /\ Fail /\ UNCHANGED defaults
       \/ /\ text[template] # Broken
          /\ defaults' = Render(text[template], req.name)
          /\ pc' = "after"
          /\ UNCHANGED resp
    /\ UNCHANGED <<fileVars, req, template, after, before, pos, seen>>

\* Seeded fault: the key is trusted because it was checked at login.
MatchesAny(e, k) == TRUE

\* key_data() of both keys is compared; a comment does not count.
Matches(e, k) == e.key = k

\* Seeded fault: links are followed wherever they lead.
AnyInside(p) == p \in Paths

\* The path resolves, and to a file of the inventory.
Inside(p) == p \in Paths /\ p \notin out

\* ensure_path_within_directory.  What is Broken is absent, or present and of
\* no use.
ResolveHostEntry ==
    /\ pc = "host_entry"
    /\ LET p == TopPath(req.name) IN
       \/ /\ ~Inside(p) \/ (p \in Paths /\ entry[p] = Broken)
          /\ Fail
       \/ /\ Inside(p)
          /\ pc' = "host_read"
          /\ UNCHANGED resp
    /\ UNCHANGED <<fileVars, req, template, defaults, after, before, pos, seen>>

\* read_host_config and the comparison that follows it.
ReadHostEntry ==
    /\ pc = "host_read"
    /\ LET e == entry[TopPath(req.name)]
       IN  \/ /\ e = Broken \/ (e # Broken /\ ~Matches(e, req.key))
              /\ Fail /\ UNCHANGED defaults
           \/ /\ e # Broken /\ Matches(e, req.key)
              /\ defaults' = [days |-> e.days, names |-> e.names]
              /\ pc' = "after"
              /\ UNCHANGED resp
    /\ UNCHANGED <<fileVars, req, template, after, before, pos, seen>>

ReadValidAfter ==
    /\ pc = "after"
    /\ after' = clock
    /\ pc' = "before"
    /\ UNCHANGED <<fileVars, req, template, defaults, before, pos, resp, seen>>

ReadValidBefore ==
    /\ pc = "before"
    /\ before' = clock + defaults.days * DaySeconds
    /\ pc' = "sign"
    /\ UNCHANGED <<fileVars, req, template, defaults, after, pos, resp, seen>>

\* Seeded fault: an empty interval is let through.
AnyInterval == defaults.names # {}

\* ssh_key::certificate::Builder refuses an interval that ends before it starts
\* and a certificate without principals.
Buildable == after <= before /\ defaults.names # {}

Sign ==
    /\ pc = "sign"
    /\ IF Buildable
       THEN Respond([kind |-> "cert", after |-> after, before |-> before,
                     days |-> defaults.days, names |-> defaults.names])
       ELSE Fail
    /\ UNCHANGED <<fileVars, req, template, defaults, after, before, pos, seen>>

\* Seeded fault: the walk ends one file early.
LastSkipped == pos + 1 >= Len(GlobOrder)

Exhausted == pos >= Len(GlobOrder)

\* find_config_by_public_key: one file of the walk.  It is skipped when it does
\* not resolve to a file of the inventory, ...
ScanResolve ==
    /\ pc = "scan" /\ ~Exhausted
    /\ LET p == GlobOrder[pos + 1] IN
       \/ /\ ~Inside(p) \/ (p \in Paths /\ entry[p] = Broken)
          /\ pos' = pos + 1
          /\ UNCHANGED pc
       \/ /\ Inside(p)
          /\ pc' = "scan_read"
          /\ UNCHANGED pos
    /\ UNCHANGED <<fileVars, req, template, defaults, after, before, resp, seen>>

\* ... and when it cannot be read; the first file with the key ends the walk.
ScanRead ==
    /\ pc = "scan_read"
    /\ LET p == GlobOrder[pos + 1]
           e == entry[p]
       IN  \/ /\ e = Broken \/ (e # Broken /\ ~Matches(e, req.key))
              /\ pos' = pos + 1
              /\ pc' = "scan"
              /\ UNCHANGED resp
           \/ /\ e # Broken /\ Matches(e, req.key)
              /\ Respond([kind |-> "found", path |-> p])
              /\ UNCHANGED pos
    /\ UNCHANGED <<fileVars, req, template, defaults, after, before, seen>>

ScanEnd ==
    /\ pc = "scan" /\ Exhausted
    /\ Respond([kind |-> "not_found"])
    /\ UNCHANGED <<fileVars, req, template, defaults, after, before, pos, seen>>

Handle == ReadUserList \/ ReadTemplate \/ ResolveHostEntry \/ ReadHostEntry
          \/ ReadValidAfter \/ ReadValidBefore \/ Sign
          \/ ScanResolve \/ ScanRead \/ ScanEnd

Next == World \/ (\E r \in Requests : Receive(r)) \/ Handle

Spec == Init /\ [][Next]_vars

-----------------------------------------------------------------------------
TypeOK ==
    /\ userList = Broken \/ userList \in [Users -> Templates \cup {Unlisted}]
    /\ text \in [Templates -> TemplateTexts \cup {Broken}]
    /\ entry \in [Paths -> HostEntries \cup {Broken}] /\ out \subseteq Paths
    /\ clock \in 0 .. MaxClock /\ edits \in 0 .. MaxEdits
    /\ pc \in {"idle", "user_list", "template", "host_entry", "host_read", "after",
              "before", "sign", "scan", "scan_read"}
    /\ req \in Requests \cup {NoRequest}
    /\ template \in Templates
    /\ DOMAIN defaults = {"days", "names"} /\ defaults.days \in Nat
    /\ after \in Nat /\ before \in Nat
    /\ pos \in 0 .. Len(GlobOrder)
    /\ resp.kind \in {"none", "error", "cert", "found", "not_found"}

Issued(op) == resp.kind = "cert" /\ req.op = op

\* user_defaults_reader.rs:54-108, maintenance.md:53.  A user certificate says
\* what one template said while the request ran, and that template was the
\* user's own while it ran (the default one only for users not listed): never
\* a mixture of two templates, never a state of the files from before.
UserCertFollowsFiles ==
    Issued("sign_user") =>
        \E s1, s2 \in seen :
            /\ s1.userList # Broken
            /\ LET t == TemplateOf(s1.userList, req.name) IN
               /\ s2.text[t] # Broken
               /\ Render(s2.text[t], req.name) =
                     [days |-> resp.days, names |-> resp.names]

\* mod.rs:150-174.  "The public key is matched at login and compared again at
\* signing" (configuration-reference.md:143): when a host certificate is
\* issued, the entry <host>.toml held the signed key and the certificate's
\* names together at a moment of this very request, and at a moment of it the
\* entry was a file of the inventory.
HostKeyConfirmed ==
    Issued("sign_host") =>
        LET p == TopPath(req.name) IN
        /\ \E s \in seen : p \notin s.out
        /\ \E s \in seen :
              /\ s.entry[p] # Broken
              /\ s.entry[p].key = req.key
              /\ s.entry[p].names = resp.names /\ s.entry[p].days = resp.days

\* mod.rs:94-104 and 175-187.  The interval of a certificate does not end
\* before it starts, whatever the clock does between the two readings, and
\* both ends come from readings made during the request.
IntervalFromRequest ==
    resp.kind = "cert" =>
        /\ resp.after <= resp.before
        /\ \E s \in seen : resp.after = s.clock
        /\ \E s \in seen : resp.before = s.clock + resp.days * DaySeconds

Holds(s, p, k)    == s.entry[p] # Broken /\ s.entry[p].key = k
Eligible(s, p, k) == Holds(s, p, k) /\ p \notin s.out

\* host_config_reader.rs:82-163.  A walk that races with edits does not lose a
\* key that some file of the inventory held all along, does not report a file
\* that never held it or led outside all along, and passes over no earlier file
\* that held it all along.
ScanSound ==
    req.op = "check" =>
        /\ resp.kind = "not_found" =>
              \A p \in Paths : \E s \in seen : ~Eligible(s, p, req.key)
        /\ resp.kind = "found" =>
              /\ \E s \in seen : Holds(s, resp.path, req.key)
              /\ \E s \in seen : resp.path \notin s.out
              /\ \A i, j \in DOMAIN GlobOrder :
                    i < j /\ GlobOrder[j] = resp.path =>
                       \E s \in seen : ~Eligible(s, GlobOrder[i], req.key)
=============================================================================
