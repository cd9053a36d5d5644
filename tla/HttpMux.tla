-------------------------------- MODULE HttpMux --------------------------------
(* SrsHttpServeMux: the handlers that patterns are registered for, and the    *)
(* one that a request goes to. A path is the sequence of its parts and whether *)
(* it ends with a slash: "/" has no part and ends with one.                   *)
EXTENDS Integers, Sequences, SequencesExt

CONSTANTS
    Registrations,      \* what may be registered: [pattern, serves]
    MaxRegistrations    \* bound: calls of handle

IsPath(p) ==
    /\ p = [host |-> p.host, parts |-> p.parts, slash |-> p.slash]
    /\ p.parts \in Seq(STRING) /\ p.slash \in BOOLEAN
ASSUME RegistrationsAssumption == \A r \in Registrations : IsPath(r.pattern)

VARIABLES entries, vhosts
muxVars == <<entries, vhosts>>

NotFound == [serves |-> "nothing"]
Redirect(pattern) == [serves |-> "redirect", to |-> pattern]

MuxInit == entries = <<>> /\ vhosts = {}

IsTree(pattern) == pattern.slash /\ (pattern.host # "" \/ pattern.parts # <<>>)
Root(pattern) == [host |-> pattern.host, parts |-> pattern.parts, slash |-> FALSE]
IsExplicit(pattern) == pattern \in DOMAIN entries /\ entries[pattern].explicit

\* handle: a tree gets a redirect at its root, unless one is there already. It
\* takes the place of a handler that was registered for the root.
Handle(pattern, handler) ==
    LET redirected == {root \in {Root(pattern)} :
                         IsTree(pattern) /\ (root \notin DOMAIN entries \/ IsExplicit(root))}
    IN /\ ~IsExplicit(pattern)
       /\ entries' = [p \in DOMAIN entries \cup {pattern} \cup redirected |->
             IF p \in redirected THEN [handler |-> Redirect(pattern), explicit |-> FALSE]
             ELSE IF p = pattern THEN [handler |-> handler, explicit |-> TRUE] ELSE entries[p]]
       /\ vhosts' = IF pattern.host = "" THEN vhosts ELSE vhosts \cup {pattern.host}
HandleDuplicate(pattern) == IsExplicit(pattern) /\ UNCHANGED muxVars

\* path_match
Within(pattern, path) ==
    /\ pattern.host = path.host
    /\ IF pattern.slash
       THEN IsPrefix(pattern.parts, path.parts) /\ (Len(path.parts) > Len(pattern.parts) \/ path.slash)
       ELSE pattern = path
\* Mutant: the path has to be longer than the pattern.
WithinOnly(pattern, path) ==
    /\ pattern.host = path.host
    /\ IF pattern.slash
       THEN IsPrefix(pattern.parts, path.parts) /\ Len(path.parts) > Len(pattern.parts)
       ELSE pattern = path
PathMatch(pattern, path) == Within(pattern, path)

\* match: patterns with the host in them are for the hosts that have one.
PathOf(request) == IF request.host \in vhosts THEN request ELSE [request EXCEPT !.host = ""]
Length(pattern) == 2 * Len(pattern.parts) + IF pattern.slash THEN 1 ELSE 0
BestOf(ps) == CHOOSE p \in ps : \A q \in ps : Length(q) <= Length(p)
Match(request) ==
    LET ps == {p \in DOMAIN entries : PathMatch(p, PathOf(request))}
    IN IF ps = {} THEN NotFound ELSE entries[BestOf(ps)].handler
=============================================================================
