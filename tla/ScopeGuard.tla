----------------------------- MODULE ScopeGuard -----------------------------
(***************************************************************************)
(* The scope guard of the reference profile (scope-guard-v2.ts): the scope *)
(* file scope.yaml with its fallback in profile.json, the /scope commands  *)
(* that rewrite it, the decision checkScope takes on a host, the tool_call *)
(* hook that blocks a command and the log of violations.  A handler runs   *)
(* without an await; sessions interleave between the read of a file, the   *)
(* open that truncates it and the write, and a session may die in between. *)
(* The older scope-guard.ts rewrites profile.json.                         *)
(***************************************************************************)
EXTENDS Integers, Sequences, FiniteSets, SequencesExt

CONSTANTS Sessions,   \* the Pi sessions that share the data directory
          Width,      \* bits of an address (32 in the code)
          Hosts,      \* the hosts commands name: [name] or [ip]
          Values,     \* the list values a user may type or write: [rule, quoted]
          Profiles,   \* the scope objects profile.json may hold at the start
          MaxCalls,   \* BOUND: calls started in one behaviour
          Crashes     \* whether a session may die between open and write

(* 2^n, by recursion.                                                       *)
pow2[n \in Nat] == IF n = 0 THEN 1 ELSE 2 * pow2[n - 1]

(* A rule is a CIDR block [net, bits], an address [ip] or a domain [name]; a *)
(* name is its labels from the top level down.  A wildcard "*.d" matches    *)
(* what the domain d matches and is the same rule.                          *)
isCIDR(rule) == "bits" \in DOMAIN rule
isIPv4(x)    == "ip" \in DOMAIN x
isName(x)    == "name" \in DOMAIN x

Addresses == 0..(pow2[Width] - 1)
Rules == {v.rule : v \in Values}
         \cup UNION {{v.rule : v \in Range(p.targets) \cup Range(p.allowed_domains.body)
                                     \cup Range(p.excluded)} : p \in Profiles}
Value == [rule : Rules, quoted : BOOLEAN]
(* A profile may do without a list of allowed domains.  The hook of this    *)
(* guard never looks at the flag authorized.                                *)
Profile == [authorized : BOOLEAN, targets : Seq(Value), excluded : Seq(Value), enforce : BOOLEAN,
            allowed_domains : [there : BOOLEAN, body : Seq(Value)]]

ASSUME ScopeAssumption ==
  /\ Width \in Nat \ {0} /\ MaxCalls \in Nat /\ Crashes \in BOOLEAN
  /\ Values \subseteq Value /\ Profiles \subseteq Profile
  /\ \A h \in Hosts : isIPv4(h) => h.ip \in Addresses
  /\ \A r \in Rules : isCIDR(r) => /\ r.net \in Addresses /\ r.bits \in 0..Width
                                   /\ ~isIPv4(r) /\ ~isName(r)

VARIABLES files,    \* scope.yaml (lines) and scope-violations.json (entries)
          profile,  \* the scope object of profile.json
          proc,     \* the write the running call of each session has to make
          calls,    \* calls started so far; also the id of the next violation
          listed,   \* rules a command or the profile ever had as target or domain
          turnedOff \* whether enforcement was ever turned off by anybody
vars == <<files, profile, proc, calls, listed, turnedOff>>

Lists == {"targets", "allowed_domains", "excluded"}
Absent == [there |-> FALSE, body |-> <<>>]
File(body) == [there |-> TRUE, body |-> body]
Call(dst, body, why) == [dst |-> dst, body |-> body, open |-> FALSE, stale |-> FALSE, why |-> why]
Idle == Call("none", <<>>, "none")

-----------------------------------------------------------------------------
(* Matching.                                                                *)

(* JavaScript's operators on Width bits: their results are signed, except   *)
(* for >>> 0, and << takes its count modulo the width.                      *)
unsigned(x) == x % pow2[Width]
signed(x) == IF unsigned(x) < pow2[Width - 1] THEN unsigned(x) ELSE unsigned(x) - pow2[Width]
shiftLeft(x, n) == signed(x * pow2[n % Width])
(* x & m, for an m that is ones followed by zeros.                          *)
bitAnd(x, m) == signed(unsigned(x) - (unsigned(x) % (pow2[Width] - unsigned(m))))

(* The first octet is shifted into the sign, so half the addresses are < 0. *)
ipToInt(a) == signed(a)
(* Ones for the prefix: the number 2^Width - 1, or ~0 shifted and made      *)
(* unsigned.                                                                *)
mask(bits) == IF bits = Width THEN pow2[Width] - 1 ELSE unsigned(shiftLeft(-1, Width - bits))

(* ipInCIDR without its case for /0, where the shift count wraps to 0.      *)
NoZeroCase(ip, cidr) ==
  bitAnd(ipToInt(ip), mask(cidr.bits)) = bitAnd(ipToInt(cidr.net), mask(cidr.bits))
ipInCIDR(ip, cidr) ==
  \/ cidr.bits = 0
  \/ bitAnd(ipToInt(ip), mask(cidr.bits)) = bitAnd(ipToInt(cidr.net), mask(cidr.bits))

domainMatches(host, rule) ==
  \/ isName(host) /\ isName(rule) /\ IsPrefix(rule.name, host.name)
  \/ isIPv4(host) /\ isIPv4(rule) /\ host.ip = rule.ip

(* A value still in quotes is neither a CIDR block nor any host's name.     *)
matchesAny(host, value) ==
  /\ ~value.quoted
  /\ IF isCIDR(value.rule) THEN isIPv4(host) /\ ipInCIDR(host.ip, value.rule)
     ELSE domainMatches(host, value.rule)

(* The first matching list decides: excluded, then targets, then domains.   *)
checkScope(host, config) ==
  IF \E v \in Range(config.excluded) : matchesAny(host, v) THEN "excluded"
  ELSE IF \/ \E v \in Range(config.targets) : matchesAny(host, v)
          \/ \E v \in Range(config.allowed_domains) : ~v.quoted /\ domainMatches(host, v.rule)
       THEN "authorized" ELSE "out of scope"

-----------------------------------------------------------------------------
(* scope.yaml: section headers, list items and the inline enforce key.      *)

Section(list) == [section |-> list]
Item(v) == [item |-> v]
Enforce(b) == [enforce |-> b]

emptyScope == [targets |-> <<>>, allowed_domains |-> <<>>, excluded |-> <<>>, enforce |-> TRUE]

stripValue(v) == [v EXCEPT !.quoted = FALSE]

parseLine(acc, line) ==
  CASE "item" \in DOMAIN line ->
         IF acc.section \in Lists
         THEN [acc EXCEPT !.config[acc.section] = Append(@, stripValue(line.item))] ELSE acc
    [] "enforce" \in DOMAIN line ->
         [section |-> "none", config |-> [acc.config EXCEPT !.enforce = line.enforce]]
    [] OTHER -> [acc EXCEPT !.section = line.section]

parseScopeYaml(lines) ==
  LET after[n \in 0..Len(lines)] == IF n = 0 THEN [section |-> "none", config |-> emptyScope]
                                    ELSE parseLine(after[n - 1], lines[n])
  IN after[Len(lines)].config

(* A file without the "excluded:" header: the items join allowed_domains.   *)
SaveNoHeader(c) ==
  <<Section("targets")>> \o [k \in DOMAIN c.targets |-> Item(c.targets[k])]
  \o <<Section("allowed_domains")>> \o [k \in DOMAIN c.allowed_domains |-> Item(c.allowed_domains[k])]
  \o [k \in DOMAIN c.excluded |-> Item(c.excluded[k])] \o <<Enforce(c.enforce)>>
saveScopeYaml(c) ==
  <<Section("targets")>> \o [k \in DOMAIN c.targets |-> Item(c.targets[k])]
  \o <<Section("allowed_domains")>> \o [k \in DOMAIN c.allowed_domains |-> Item(c.allowed_domains[k])]
  \o <<Section("excluded")>> \o [k \in DOMAIN c.excluded |-> Item(c.excluded[k])]
  \o <<Enforce(c.enforce)>>

(* Without a scope.yaml the scope object of profile.json counts; its        *)
(* targets are also the allowed domains unless it lists those.              *)
loadScope ==
  IF files["scope"].there THEN parseScopeYaml(files["scope"].body)
  ELSE [targets |-> profile.targets,
        allowed_domains |-> IF profile.allowed_domains.there THEN profile.allowed_domains.body
                            ELSE profile.targets,
        excluded |-> profile.excluded, enforce |-> profile.enforce]

(* A guard that treats a scope with no entries as advisory mode.            *)
AdvisoryWhenEmpty(host, c) ==
  \/ ~c.enforce \/ checkScope(host, c) = "authorized"
  \/ c.targets = <<>> /\ c.allowed_domains = <<>>
(* Whether the tool_call hook lets a command on host run.                   *)
mayRun(host, c) == ~c.enforce \/ checkScope(host, c) = "authorized"

-----------------------------------------------------------------------------
(* Calls.  A call reads and leaves at most one file to write.               *)

Start(s, why, dst, body) ==
  /\ proc[s].dst = "none" /\ calls < MaxCalls
  /\ calls' = calls + 1
  /\ proc' = [proc EXCEPT ![s] = Call(dst, body, why)]
  /\ UNCHANGED <<files, profile>>

Save(s, why, config) ==
  /\ Start(s, why, "scope", saveScopeYaml(config))
  /\ turnedOff' = (turnedOff \/ (why = "enforce" /\ ~config.enforce))

Include(list, v) == IF v \in Range(list) THEN list ELSE Append(list, v)
Listed(rules) == listed' = listed \cup rules

scopeSet(s) ==
  \E v \in Values :
    /\ Save(s, "set", [emptyScope EXCEPT !.targets = <<v>>, !.allowed_domains = <<v>>])
    /\ Listed({v.rule})
scopeAdd(s) ==
  \E v \in Values : /\ Save(s, "add", [loadScope EXCEPT !.targets = Include(@, v)])
                    /\ Listed({v.rule})
scopeAllowed(s) ==
  \E v \in Values : /\ Save(s, "allowed", [loadScope EXCEPT !.allowed_domains = Include(@, v)])
                    /\ Listed({v.rule})
scopeExclude(s) ==
  \E v \in Values : /\ Save(s, "exclude", [loadScope EXCEPT !.excluded = Include(@, v)])
                    /\ Listed({})
scopeEnforce(s) ==
  \E on \in BOOLEAN : Save(s, "enforce", [loadScope EXCEPT !.enforce = on]) /\ Listed({})

(* An entry of the log is its id.                                           *)
RecordOverwrites(s, why) == Start(s, why, "violations", <<calls + 1>>)
recordViolation(s, why) ==
  Start(s, why, "violations", Append(files["violations"].body, calls + 1))

scope_violation(s) == recordViolation(s, "report") /\ UNCHANGED <<listed, turnedOff>>

(* The hook takes the hosts of a bash command in turn, records a violation  *)
(* for the first it refuses and blocks the command; a command that may run  *)
(* writes nothing.                                                          *)
tool_call(s) ==
  /\ LET c == loadScope IN \E h \in Hosts : ~mayRun(h, c)
  /\ recordViolation(s, "block") /\ UNCHANGED <<listed, turnedOff>>

(* scope-guard.ts: scope_set, and /scope set with authorized TRUE, replace  *)
(* the profile's scope object, with what it excluded and its domains.       *)
scope_set ==
  \E v \in Values, authorized \in BOOLEAN :
    /\ calls < MaxCalls /\ calls' = calls + 1
    /\ profile' = [authorized |-> authorized, targets |-> <<v>>, excluded |-> <<>>,
                   enforce |-> TRUE, allowed_domains |-> Absent]
    /\ Listed({v.rule}) /\ UNCHANGED <<files, proc, turnedOff>>

-----------------------------------------------------------------------------
(* File operations of a started call *)

Overtaken(s, dst, p) ==
  [t \in Sessions |-> IF t # s /\ p[t].dst = dst THEN [p[t] EXCEPT !.stale = TRUE] ELSE p[t]]

Open(s) ==
  /\ proc[s].dst # "none" /\ ~proc[s].open
  /\ files' = [files EXCEPT ![proc[s].dst] = File(<<>>)]
  /\ proc' = Overtaken(s, proc[s].dst, [proc EXCEPT ![s].open = TRUE])
  /\ UNCHANGED <<profile, calls, listed, turnedOff>>

Write(s) ==
  /\ proc[s].open
  /\ files' = [files EXCEPT ![proc[s].dst] = File(proc[s].body)]
  /\ proc' = Overtaken(s, proc[s].dst, [proc EXCEPT ![s] = Idle])
  /\ UNCHANGED <<profile, calls, listed, turnedOff>>

(* The session dies after open and before write: the file stays empty,      *)
(* which loadViolations takes for an empty log.                             *)
Crash(s) ==
  /\ Crashes /\ proc[s].open /\ proc' = [proc EXCEPT ![s] = Idle]
  /\ UNCHANGED <<files, profile, calls, listed, turnedOff>>

Init ==
  /\ profile \in Profiles
  /\ files = [f \in {"scope", "violations"} |-> Absent]
  /\ proc = [s \in Sessions |-> Idle]
  /\ calls = 0
  /\ listed = {v.rule : v \in Range(profile.targets) \cup Range(profile.allowed_domains.body)}
  /\ turnedOff = ~profile.enforce

Next ==
  \/ scope_set
  \/ \E s \in Sessions :
       \/ scopeSet(s) \/ scopeAdd(s) \/ scopeAllowed(s) \/ scopeExclude(s) \/ scopeEnforce(s)
       \/ scope_violation(s) \/ tool_call(s)
       \/ Open(s) \/ Write(s) \/ Crash(s)

Spec == Init /\ [][Next]_vars

-----------------------------------------------------------------------------
(* Properties *)

(* What a rule stands for, without the arithmetic of the code.              *)
Denotes(rule) ==
  {h \in Hosts : \/ isName(rule) /\ isName(h) /\ IsPrefix(rule.name, h.name)
                 \/ isIPv4(rule) /\ isIPv4(h) /\ h.ip = rule.ip
                 \/ isCIDR(rule) /\ isIPv4(h)
                    /\ h.ip \div pow2[Width - rule.bits] = rule.net \div pow2[Width - rule.bits]}

(* The guard fails closed: whatever was torn, lost or overwritten, the      *)
(* tool_call hook lets a command on a host run only when somebody has listed *)
(* a rule that covers the host, as a target or an allowed domain, or turned  *)
(* enforcement off.  That is all it asks: targets that scope_set or the      *)
(* profile lists with authorized FALSE ("Authorization removed") count too.  *)
FailsClosed ==
  ~turnedOff => LET c == loadScope
                    covered == UNION {Denotes(r) : r \in listed}
                IN \A h \in Hosts \ covered : ~mayRun(h, c)

(* checkScope on the scope as it was saved and parsed back agrees with the  *)
(* sets its entries stand for, exclusion first, at every prefix length.     *)
DecisionExact ==
  LET c == loadScope
      Of(list) == UNION {Denotes(v.rule) : v \in {w \in Range(list) : ~w.quoted}}
  IN \A h \in Hosts :
       checkScope(h, c) = IF h \in Of(c.excluded) THEN "excluded"
                          ELSE IF \/ h \in Of(c.targets)
                                  \/ \E v \in Range(c.allowed_domains) :
                                       ~v.quoted /\ ~isCIDR(v.rule) /\ h \in Denotes(v.rule)
                          THEN "authorized" ELSE "out of scope"

(* "Exclusion overrides all allow rules": a host that is excluded stays so  *)
(* through every command but /scope set, as long as no other session        *)
(* overlapped it, also when the command moves the scope from profile.json   *)
(* into scope.yaml.                                                         *)
ExclusionKept ==
  [][\A s \in Sessions : Open(s) /\ proc[s].dst = "scope" /\ proc[s].why # "set" /\ ~proc[s].stale
       => LET old == loadScope
              new == parseScopeYaml(proc[s].body)
          IN \A h \in Hosts : checkScope(h, old) = "excluded"
                                => checkScope(h, new) = "excluded"]_vars

(* A violation that was recorded stays in the log unless another session's  *)
(* recording overlaps or a session dies while it writes: the next recording *)
(* of any session keeps all earlier entries, in order.                      *)
ViolationsKept ==
  [][\A s \in Sessions : Open(s) /\ proc[s].dst = "violations" /\ ~proc[s].stale
       => IsStrictPrefix(files["violations"].body, proc[s].body)]_vars
=============================================================================
