---------------------------- MODULE HooksInstall ----------------------------
(***************************************************************************)
(* hooks_install.py: install and uninstall read the harness's settings     *)
(* file, rewrite what is theirs in it and replace the file, without a      *)
(* lock.  The harness, the operator and other installers write it too.     *)
(* The layout of the text is left out: a settings value is what the JSON   *)
(* says, and the file is taken to be laid out as the installer does it.    *)
(***************************************************************************)
EXTENDS Naturals, Sequences, FiniteSets, SequencesExt

CONSTANTS
  Installer,
  Checkout,         \* checkouts of the skill that commands may point to
  Recognised,       \* those with a directory superhuman in their path
  LinkedWorktrees,  \* those that install does not choose by itself
  Expected,         \* _expected_entries: a sequence of [event, matcher, hook]
  Rewrites(_),      \* what the harness or the operator may save instead
  InitialSettings

ASSUME CheckoutAssumption ==
  LinkedWorktrees \subseteq Checkout /\ Recognised \subseteq Checkout

\* No two entries go to one event under one matcher.
ASSUME ExpectedAssumption ==
  /\ Expected \in Seq([event : STRING, matcher : STRING, hook : STRING])
  /\ \A i, j \in DOMAIN Expected :
       Expected[i].event = Expected[j].event /\ Expected[i].matcher = Expected[j].matcher
       => i = j

VARIABLES settings, work

hookVars == <<settings, work>>

\* A file is absent, no JSON object, or an object whose hooks are missing, of
\* another type, or a map from events; an event's value and a group's commands
\* are lists unless somebody wrote something else there.
Absent == [form |-> "absent"]
Invalid == [form |-> "invalid"]
Missing == [form |-> "missing"]
Odd == [form |-> "odd"]
List(s) == [form |-> "list", of |-> s]
Object(hooks) == [form |-> "object", hooks |-> hooks]
Events(f) == [form |-> "events", of |-> f]
Group(matcher, commands) == [form |-> "group", matcher |-> matcher, commands |-> commands]
Ours(hook, root) == [owner |-> "ours", hook |-> hook, root |-> root]
Theirs(hook) == [owner |-> "theirs", hook |-> hook, root |-> "none"]

Refused == [form |-> "refused"]     \* HooksInstallError
-----------------------------------------------------------------------------
CommandsOf(g) ==
  IF g.form = "group" /\ g.commands.form = "list" THEN g.commands.of ELSE <<>>

\* _entry_owned_basename: a command of ours is known by the path it points to.
Owned(c) == c.owner = "ours" /\ c.root \in Recognised
OursIn(g) == {j \in DOMAIN CommandsOf(g) : Owned(CommandsOf(g)[j])}
HasOwned(g) == OursIn(g) # {}

Remaining(commands) ==
  FlattenSeq([j \in DOMAIN commands |->
    IF Owned(commands[j]) THEN <<>> ELSE <<commands[j]>>])

Stripped(g) ==
  IF HasOwned(g) THEN Group(g.matcher, List(Remaining(CommandsOf(g)))) ELSE g

\* Mutant: a group with a command of ours goes as a whole.
KeptWithoutOurs(g) == IF HasOwned(g) THEN <<>> ELSE <<g>>

\* A group goes only if it held commands of ours and nothing else.
KeptGroup(g) ==
  IF HasOwned(g) /\ Remaining(CommandsOf(g)) = <<>> THEN <<>> ELSE <<Stripped(g)>>
Kept(groups) == FlattenSeq([i \in DOMAIN groups |-> KeptGroup(groups[i])])

\* Mutant: what an earlier install registered stays.
RemoveNothing(hooks) == hooks

\* _remove_owned: an event goes with its last group.
RemoveOwned(hooks) ==
  LET lists == {e \in DOMAIN hooks : hooks[e].form = "list"}
      emptied == {e \in lists :
                    /\ \E i \in DOMAIN hooks[e].of : HasOwned(hooks[e].of[i])
                    /\ Kept(hooks[e].of) = <<>>}
  IN  [e \in DOMAIN hooks \ emptied |->
         IF e \in lists THEN List(Kept(hooks[e].of)) ELSE hooks[e]]

\* One turn of _add_owned: into the first group with the matcher, or a new one.
ValueAt(hooks, e) == IF e \in DOMAIN hooks THEN hooks[e] ELSE List(<<>>)

Matching(groups, matcher) ==
  {i \in DOMAIN groups : groups[i].form = "group" /\ groups[i].matcher = matcher}

Refuses(value, matcher) ==
  \/ value.form # "list"
  \/ /\ Matching(value.of, matcher) # {}
     /\ value.of[Min(Matching(value.of, matcher))].commands.form = "odd"

Joined(groups, matcher, command) ==
  IF Matching(groups, matcher) = {}
    THEN Append(groups, Group(matcher, List(<<command>>)))
    ELSE [groups EXCEPT ![Min(Matching(groups, matcher))] =
            Group(matcher, List(Append(CommandsOf(@), command)))]

AddEntry(hooks, entry, root) ==
  LET value == ValueAt(hooks, entry.event)
  IN  IF Refuses(value, entry.matcher) THEN Refused
      ELSE Events([e \in DOMAIN hooks \cup {entry.event} |->
             IF e = entry.event
               THEN List(Joined(value.of, entry.matcher, Ours(entry.hook, root)))
               ELSE hooks[e]])

AddOwned(hooks, root) ==
  LET added[n \in 0 .. Len(Expected)] ==
        IF n = 0 THEN Events(hooks)
        ELSE IF added[n - 1] = Refused THEN Refused
        ELSE AddEntry(added[n - 1].of, Expected[n], root)
  IN  added[Len(Expected)]

\* install, from what it read to what it writes.
Installed(s, root) ==
  LET before == IF s = Absent THEN Missing ELSE s.hooks
      after == AddOwned(RemoveOwned(IF before = Missing THEN <<>> ELSE before.of), root)
  IN  IF s = Invalid \/ before = Odd \/ after = Refused THEN Refused
      ELSE Object(after)

\* uninstall: hooks that are empty in the end are taken out.
Uninstalled(s) ==
  IF s = Absent \/ (s # Invalid /\ s.hooks.form # "events") THEN s
  ELSE IF s = Invalid THEN Refused
  ELSE LET after == RemoveOwned(s.hooks.of)
       IN  Object(IF DOMAIN after = {} THEN Missing ELSE Events(after))
-----------------------------------------------------------------------------
NoWork == [kind |-> "none"]

HooksInit ==
  /\ settings \in InitialSettings
  /\ work = [p \in Installer |-> NoWork]

\* A file that stays as it is, is not written; nor is it by a dry run.
Read(p, kind, root, text) ==
  /\ work[p] = NoWork
  /\ text \notin {Refused, settings}
  /\ work' = [work EXCEPT ![p] = [kind |-> kind, root |-> root,
                                  seen |-> settings, text |-> text]]
  /\ UNCHANGED settings

\* resolve_skill_root: a root that the operator names is taken as it is, else the
\* main checkout of the installer's own repository.
CallInstall(p) ==
  \E root \in Checkout, named \in BOOLEAN :
    /\ named \/ root \notin LinkedWorktrees
    /\ Read(p, "install", root, Installed(settings, root))

CallUninstall(p) == Read(p, "uninstall", "none", Uninstalled(settings))

\* _atomic_write.
Replace(p) ==
  /\ work[p] # NoWork
  /\ settings' = work[p].text
  /\ work' = [work EXCEPT ![p] = NoWork]

CrashInstaller(p) ==
  /\ work[p] # NoWork
  /\ work' = [work EXCEPT ![p] = NoWork]
  /\ UNCHANGED settings

Rewrite ==
  /\ settings' \in Rewrites(settings)
  /\ UNCHANGED work

InstallerStep(p) == Replace(p) \/ CrashInstaller(p)
-----------------------------------------------------------------------------
GroupsAt(s, e) ==
  IF s.form = "object" /\ s.hooks.form = "events" /\ e \in DOMAIN s.hooks.of
       /\ s.hooks.of[e].form = "list"
    THEN s.hooks.of[e].of ELSE <<>>

EventsOf(s) ==
  IF s.form = "object" /\ s.hooks.form = "events" THEN DOMAIN s.hooks.of ELSE {}

\* Every command that the harness runs, known or not.
Commands(s) ==
  UNION {UNION {Range(CommandsOf(g)) : g \in Range(GroupsAt(s, e))} : e \in EventsOf(s)}

\* The known commands of ours: event, group, and position in the group.
OurPlaces(s) ==
  UNION {UNION {{<<e, i, j>> : j \in OursIn(GroupsAt(s, e)[i])}
                  : i \in DOMAIN GroupsAt(s, e)} : e \in EventsOf(s)}

Registration(s, place) ==
  LET g == GroupsAt(s, place[1])[place[2]]
      c == CommandsOf(g)[place[3]]
  IN  [event |-> place[1], matcher |-> g.matcher, hook |-> c.hook, root |-> c.root]

Registered(s) == {Registration(s, place) : place \in OurPlaces(s)}

\* Each expected entry stands there once, for that root, and no other command.
Whole(s, root) ==
  /\ Registered(s) = {[event |-> x.event, matcher |-> x.matcher,
                       hook |-> x.hook, root |-> root] : x \in Range(Expected)}
  /\ \A p, q \in OurPlaces(s) : Registration(s, p) = Registration(s, q) => p = q

\* Where an expected entry may go without anything of others beside it: a group
\* without commands, or an event without groups.
Bare(g) == g.form = "group" /\ g.commands.form # "odd" /\ CommandsOf(g) = <<>>
HasBareGroup(s) ==
  \E x \in Range(Expected) : \E i \in Matching(GroupsAt(s, x.event), x.matcher) :
    Bare(GroupsAt(s, x.event)[i])
HasBareEvent(s) ==
  \E x \in Range(Expected) : x.event \in EventsOf(s) /\ s.hooks.of[x.event] = List(<<>>)

\* What others have put there: all but the known commands, the groups that hold
\* nothing else, and the events that hold only such groups.  The groups without
\* commands and with a matcher in open are left out, too.
ForeignGroup(g, open) ==
  IF Bare(Stripped(g)) /\ (HasOwned(g) \/ g.matcher \in open) THEN <<>> ELSE <<Stripped(g)>>
ForeignGroups(groups, open) ==
  FlattenSeq([i \in DOMAIN groups |-> ForeignGroup(groups[i], open)])

ForeignAt(s, e, open) ==
  IF s.hooks.of[e].form = "list" THEN ForeignGroups(s.hooks.of[e].of, open)
  ELSE <<s.hooks.of[e]>>

Others(s, open) ==
  LET here == {e \in EventsOf(s) : \/ ForeignAt(s, e, open[e]) # <<>>
                                   \/ open[e] = {} /\ GroupsAt(s, e) = <<>>}
  IN  [e \in here |-> ForeignAt(s, e, open[e])]

Foreign(s) == Others(s, [e \in EventsOf(s) |-> {}])

\* The part of it that no entry of an install goes into.
ExpectedMatchers(e) == {x.matcher : x \in {y \in Range(Expected) : y.event = e}}
Spared(s) == Others(s, [e \in EventsOf(s) |-> ExpectedMatchers(e)])
-----------------------------------------------------------------------------
\* Whatever stood in the file, an uninstall is about to take away every known
\* command of ours and nothing else, also one that follows an install; and an
\* install to write each entry once for its root, if that is a recognised one, and
\* leave alone what others had put there.  A second install finds nothing to do.
\* That is not so for a group without commands and an event without groups that an
\* entry went into: they are then taken for ours, a second install goes on with the
\* next group of the matcher, which it may have to refuse, or puts a group at the
\* end, and an uninstall drops them.
InstallIsExact ==
  \A p \in {x \in Installer : work[x] # NoWork} :
    LET seen == work[p].seen
        text == work[p].text
        again == Installed(text, work[p].root)
        Exact(s) == Whole(s, work[p].root) /\ Spared(s) = Spared(seen)
        Clean(s, t) == Registered(t) = {} /\ Foreign(t) = Foreign(s)
    IN  IF work[p].kind = "uninstall" THEN Clean(seen, text)
        ELSE /\ Clean(text, Uninstalled(text))
             /\ IF work[p].root \notin Recognised THEN Registered(text) = {}
                ELSE /\ Exact(text)
                     /\ again # Refused => Exact(again)
                     /\ HasBareGroup(seen) \/ again = text
                     /\ HasBareGroup(seen) \/ HasBareEvent(seen) \/ Foreign(text) = Foreign(seen)

\* install's docstring: a second call with nothing changed writes nothing.
SecondInstallWritesNothing ==
  \A p \in {x \in Installer : work[x] # NoWork} :
    work[p].kind = "install" /\ work[p].root \in Recognised
    => Installed(work[p].text, work[p].root) = work[p].text

\* However installers and others overtake one another, a replaced file holds one
\* whole install or none, never parts of two, of what is known of them; and what
\* others have put there, and no entry goes into, is lost only by a process that
\* somebody overtook after it had read the file.
ReplacementsAreWhole ==
  [][\A p \in Installer : Replace(p) =>
       /\ Registered(settings') = {} \/ \E root \in Recognised : Whole(settings', root)
       /\ \/ Spared(settings') = Spared(settings)
          \/ settings # work[p].seen
          \/ work[p].root \in Checkout \ Recognised]_hookVars
=============================================================================
