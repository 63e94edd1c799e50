---------------------------- MODULE Credentials ----------------------------
(***************************************************************************)
(* How New finds a bearer token and how the client's requests carry it.    *)
(* Several clients are built in one process, possibly around the same      *)
(* caller-owned http.Client, while token files are replaced, chmodded and  *)
(* rewritten by other processes; then each client makes requests and the   *)
(* servers answer with redirects.                                          *)
(*                                                                         *)
(* readTokenFile is the one of unix builds.  The file system, the          *)
(* environment and net/http's redirects are external.                      *)
(***************************************************************************)
EXTENDS Integers, Sequences, SequencesExt

CONSTANTS
    Clients,        \* the clients a process builds
    Setups,         \* the listen address and option list New may be given, per client
    Environments,   \* TETHER_TOKEN, the TETHER_MCP_TOKEN marker and whether there is a home
    Names,          \* explicit token file paths and DefaultPath
    DefaultPath,    \* ~/.tether/run/operator.token
    Inodes,         \* what a name can refer to, besides Missing and Link
    InitialFiles,   \* the states the file system may start in
    Bodies,         \* contents a file can have: a token and the bytes of space around it
    Origins,        \* scheme and host pairs a redirect can lead to
    MaxChanges,     \* bound: changes of the file system
    MaxRedirects    \* bound: redirects followed per request, 10 in net/http

CONSTANTS Missing, Link, Shared, NoFile

VARIABLES
    opts,       \* the listen address and options of each client
    env,        \* the environment of the process
    names,      \* the directory: the inode at each name, Missing, or Link
    inode,      \* each inode's kind, whether it is private, and its body
    bound,      \* history: what each name has referred to
    was,        \* history: the states each inode has been in
    changes,    \* file system changes so far
    pc,         \* "new", "open", "stat", "read", "ready", "failed", "trip", "wait"
    client,     \* the Client under construction, then the constructed one
    applied,    \* how many of its options New has applied
    fd,         \* the inode readTokenFile has open or had open
    transport,  \* the credentialTransports around each http.Client's base, outermost first
    url,        \* the origin of the request in progress
    hops,       \* redirects it has followed
    sent        \* every request that reached a server: which client's, where, which token

files == <<names, inode, bound, was, changes>>
calls == <<url, hops, sent>>
vars == <<opts, env, files, pc, client, applied, fd, transport, calls>>

-----------------------------------------------------------------------------
(* Tokens are told apart by name; size is in bytes and clean says that     *)
(* every byte is printable ASCII without space.                            *)
Anonymous == [name |-> "", size |-> 0, clean |-> TRUE]

validBearerToken(t) == t.size \in 1..256 /\ t.clean

(* readTokenFile reads at most 258 bytes and trims the space.              *)
Accepted(body) == body.token.size + body.space < 258 /\ validBearerToken(body.token)

(* Options. *)
WithToken(t)        == [opt |-> "token", token |-> t]
WithTokenFile(path) == [opt |-> "file", path |-> path]
WithBaseURL(origin) == [opt |-> "base", origin |-> origin]
WithHTTPClient      == [opt |-> "http"]

Apply(c, o) ==
    CASE o.opt = "token" -> [c EXCEPT !.token = o.token, !.tokenSet = TRUE]
      [] o.opt = "file"  -> [c EXCEPT !.tokenFile = o.path, !.tokenFileSet = TRUE]
      [] o.opt = "base"  -> [c EXCEPT !.origin = o.origin]
      [] o.opt = "http"  -> [c EXCEPT !.http = Shared]

IsOrigin(o) == o = [scheme |-> o.scheme, host |-> o.host]

IsOption(o) ==
    \/ o.opt = "token" /\ o = WithToken(o.token)
    \/ o.opt = "file"  /\ o = WithTokenFile(o.path) /\ o.path \in Names \cup {""}
    \/ o.opt = "base"  /\ o = WithBaseURL(o.origin) /\ IsOrigin(o.origin)
    \/ o = WithHTTPClient

IsFile(f) == f = [kind |-> f.kind, private |-> f.private, body |-> f.body]

(* Option lists hold the package's options, URLs have a scheme and a host, *)
(* and an http.Client that New allocates is not the one its caller passes. *)
ASSUME CredentialsAssumption ==
    /\ DefaultPath \in Names
    /\ {Missing, Link, NoFile} \cap Inodes = {}
    /\ Shared \notin Clients
    /\ MaxChanges \in Nat
    /\ MaxRedirects \in Nat
    /\ \A o \in Origins : IsOrigin(o)
    /\ \A s \in Setups : \A c \in Clients :
         /\ IsOrigin(s[c].listen)
         /\ Len(s[c].options) \in Nat
         /\ \A i \in 1..Len(s[c].options) : IsOption(s[c].options[i])
    /\ \A f \in InitialFiles :
         /\ DOMAIN f.names = Names
         /\ DOMAIN f.inode = Inodes
         /\ \A i \in Inodes : IsFile(f.inode[i]) /\ f.inode[i].private \in BOOLEAN

(* What New starts from: transportFor's origin and an http.Client of its   *)
(* own, named after the client.                                            *)
Fresh(c) ==
    [origin |-> opts[c].listen, http |-> c, token |-> Anonymous, tokenSet |-> FALSE,
     tokenFile |-> "", tokenFileSet |-> FALSE]

-----------------------------------------------------------------------------
(* New *)

Fail(c) ==
    /\ pc' = [pc EXCEPT ![c] = "failed"]
    /\ UNCHANGED <<client, transport>>

(* An origin without host, or with a scheme other than http and https.     *)
ValidOrigin(o) == o.host # "" /\ o.scheme \in {"http", "https"}

(* Mutant: the credential transport is installed in the http.Client the    *)
(* caller passed.                                                          *)
WrapInPlace(c, k, layer) ==
    /\ transport' = [transport EXCEPT ![k.http] = <<layer>> \o @]
    /\ client' = [client EXCEPT ![c] = k]

(* The http.Client is copied, and the copy's transport wrapped.            *)
Wrap(c, k, layer) ==
    /\ transport' = [transport EXCEPT ![c] = <<layer>> \o transport[k.http]]
    /\ client' = [client EXCEPT ![c] = [k EXCEPT !.http = c]]

(* configureCredentials, once resolveToken has returned token t.  The      *)
(* record keeps t as the client's token; the code keeps it in the layer.   *)
Configure(c, k, t) ==
    IF t # Anonymous /\ ~(validBearerToken(t) /\ ValidOrigin(k.origin))
    THEN Fail(c)
    ELSE /\ pc' = [pc EXCEPT ![c] = "ready"]
         /\ IF t = Anonymous
            THEN /\ client' = [client EXCEPT ![c] = [k EXCEPT !.token = t]]
                 /\ UNCHANGED transport
            ELSE Wrap(c, [k EXCEPT !.token = t], [token |-> t, origin |-> k.origin])

OpenNext(c, k) ==
    /\ client' = [client EXCEPT ![c] = k]
    /\ pc' = [pc EXCEPT ![c] = "open"]
    /\ UNCHANGED transport

(* resolveToken up to the first file operation.                            *)
resolveToken(c, k) ==
    IF k.tokenFileSet THEN IF k.tokenFile = "" THEN Fail(c) ELSE OpenNext(c, k)
    ELSE IF k.tokenSet THEN Configure(c, k, k.token)
    ELSE IF env.token # Anonymous THEN Configure(c, k, env.token)
    ELSE IF env.marked THEN Configure(c, k, Anonymous)
    ELSE IF ~env.home THEN Fail(c)
    ELSE OpenNext(c, [k EXCEPT !.tokenFile = DefaultPath])

(* The loop over the options, in the order they are given.                 *)
ApplyOption(c) ==
    /\ pc[c] = "new"
    /\ applied[c] < Len(opts[c].options)
    /\ client' = [client EXCEPT ![c] = Apply(@, opts[c].options[applied[c] + 1])]
    /\ applied' = [applied EXCEPT ![c] = @ + 1]
    /\ UNCHANGED <<opts, env, files, pc, fd, transport, calls>>

New(c) ==
    /\ pc[c] = "new"
    /\ applied[c] = Len(opts[c].options)
    /\ resolveToken(c, client[c])
    /\ UNCHANGED <<opts, env, files, applied, fd, calls>>

-----------------------------------------------------------------------------
(* readTokenFile, one system call at a time. *)

(* What the name of the client's token file refers to now.                 *)
Named(c) == names[client[c].tokenFile]

(* Mutant: without O_NONBLOCK, opening a fifo waits for its writer.        *)
OpenBlocking(c) ==
    /\ pc[c] = "open"
    /\ Named(c) \in Inodes
    /\ inode[Named(c)].kind # "fifo"
    /\ fd' = [fd EXCEPT ![c] = Named(c)]
    /\ pc' = [pc EXCEPT ![c] = "stat"]
    /\ UNCHANGED <<opts, env, files, client, applied, transport, calls>>

(* O_NOFOLLOW refuses a link (OpenFails); O_NONBLOCK opens a fifo.         *)
OpenFile(c) ==
    /\ pc[c] = "open"
    /\ Named(c) \in Inodes
    /\ fd' = [fd EXCEPT ![c] = Named(c)]
    /\ pc' = [pc EXCEPT ![c] = "stat"]
    /\ UNCHANGED <<opts, env, files, client, applied, transport, calls>>

(* A missing default file, and nothing else, means no token.               *)
OpenFails(c) ==
    /\ pc[c] = "open"
    /\ Named(c) \notin Inodes
    /\ IF Named(c) = Missing /\ ~client[c].tokenFileSet
       THEN Configure(c, client[c], Anonymous) ELSE Fail(c)
    /\ UNCHANGED <<opts, env, files, applied, fd, calls>>

(* Mutant: os.Lstat of the path instead of Stat of the open file.          *)
StatPath(c) ==
    /\ pc[c] = "stat"
    /\ IF Named(c) \in Inodes /\ inode[Named(c)].kind = "regular" /\ inode[Named(c)].private
       THEN /\ pc' = [pc EXCEPT ![c] = "read"]
            /\ UNCHANGED <<client, transport>>
       ELSE Fail(c)
    /\ UNCHANGED <<opts, env, files, applied, fd, calls>>

(* Mutant: a file that is refused leaves New with WithToken's token.       *)
StatFallsBack(c) ==
    /\ pc[c] = "stat"
    /\ IF inode[fd[c]].kind = "regular" /\ inode[fd[c]].private
       THEN /\ pc' = [pc EXCEPT ![c] = "read"]
            /\ UNCHANGED <<client, transport>>
       ELSE IF client[c].tokenSet THEN Configure(c, client[c], client[c].token) ELSE Fail(c)
    /\ UNCHANGED <<opts, env, files, applied, fd, calls>>

Stat(c) ==
    /\ pc[c] = "stat"
    /\ IF inode[fd[c]].kind = "regular" /\ inode[fd[c]].private
       THEN /\ pc' = [pc EXCEPT ![c] = "read"]
            /\ UNCHANGED <<client, transport>>
       ELSE Fail(c)
    /\ UNCHANGED <<opts, env, files, applied, fd, calls>>

ReadAll(c) ==
    /\ pc[c] = "read"
    /\ LET body == inode[fd[c]].body IN
         IF Accepted(body) THEN Configure(c, client[c], body.token) ELSE Fail(c)
    /\ UNCHANGED <<opts, env, files, applied, fd, calls>>

-----------------------------------------------------------------------------
(* Other processes and the file system (external). *)

(* Changes that no client is about to see are left out.                    *)
Change ==
    /\ \E c \in Clients : pc[c] \in {"open", "stat", "read"}
    /\ changes < MaxChanges
    /\ changes' = changes + 1
    /\ UNCHANGED <<opts, env, pc, client, applied, fd, transport, calls>>

(* rename, unlink or symlink: the name refers to something else.           *)
Rebind(name) ==
    /\ Change
    /\ \E to \in Inodes \cup {Missing, Link} :
         /\ to # names[name]
         /\ names' = [names EXCEPT ![name] = to]
         /\ bound' = [bound EXCEPT ![name] = @ \cup {to}]
    /\ UNCHANGED <<inode, was>>

Chmod(i) ==
    /\ Change
    /\ inode' = [inode EXCEPT ![i].private = ~@]
    /\ was' = [was EXCEPT ![i] = @ \cup {inode'[i]}]
    /\ UNCHANGED <<names, bound>>

(* Truncated or rewritten in place.                                        *)
Rewrite(i) ==
    /\ Change
    /\ \E body \in Bodies : body # inode[i].body /\ inode' = [inode EXCEPT ![i].body = body]
    /\ was' = [was EXCEPT ![i] = @ \cup {inode'[i]}]
    /\ UNCHANGED <<names, bound>>

-----------------------------------------------------------------------------
(* Requests.  Every method goes through the http.Client or longLivedClient,*)
(* a copy of it with the same transport.                                   *)

Request(c) ==
    /\ pc[c] = "ready"
    /\ pc' = [pc EXCEPT ![c] = "trip"]
    /\ url' = [url EXCEPT ![c] = client[c].origin]
    /\ hops' = [hops EXCEPT ![c] = 0]
    /\ UNCHANGED <<opts, env, files, client, applied, fd, transport, sent>>

Layers(c) == transport[client[c].http]

(* Mutant: only the host is compared.                                      *)
SameHost(layer, u) == layer.origin.host = u.host

SameOrigin(layer, u) == layer.origin.scheme = u.scheme /\ layer.origin.host = u.host

(* Each credentialTransport refuses a foreign origin or sets the header;   *)
(* the innermost sets it last.                                             *)
RoundTrip(c) ==
    /\ pc[c] = "trip"
    /\ IF \A i \in 1..Len(Layers(c)) : SameOrigin(Layers(c)[i], url[c])
       THEN /\ pc' = [pc EXCEPT ![c] = "wait"]
            /\ sent' = sent \cup {[from |-> c, to |-> url[c],
                                   token |-> IF Layers(c) = <<>> THEN Anonymous
                                             ELSE Last(Layers(c)).token]}
       ELSE /\ pc' = [pc EXCEPT ![c] = "ready"]
            /\ UNCHANGED sent
    /\ UNCHANGED <<opts, env, files, client, applied, fd, transport, url, hops>>

(* The http.Client follows a redirect, to any origin and possibly back, or *)
(* gives up when there were too many.                                      *)
Redirect(c) ==
    /\ pc[c] = "wait"
    /\ IF hops[c] < MaxRedirects
       THEN /\ \E to \in Origins : url' = [url EXCEPT ![c] = to]
            /\ hops' = [hops EXCEPT ![c] = @ + 1]
            /\ pc' = [pc EXCEPT ![c] = "trip"]
       ELSE /\ pc' = [pc EXCEPT ![c] = "ready"]
            /\ UNCHANGED <<url, hops>>
    /\ UNCHANGED <<opts, env, files, client, applied, fd, transport, sent>>

Respond(c) ==
    /\ pc[c] = "wait"
    /\ pc' = [pc EXCEPT ![c] = "ready"]
    /\ UNCHANGED <<opts, env, files, client, applied, fd, transport, calls>>

-----------------------------------------------------------------------------
Init ==
    /\ opts \in Setups
    /\ env \in Environments
    /\ \E f \in InitialFiles : names = f.names /\ inode = f.inode
    /\ bound = [n \in Names |-> {names[n]}]
    /\ was = [i \in Inodes |-> {inode[i]}]
    /\ changes = 0
    /\ pc = [c \in Clients |-> "new"]
    /\ client = [c \in Clients |-> Fresh(c)]
    /\ applied = [c \in Clients |-> 0]
    /\ fd = [c \in Clients |-> NoFile]
    /\ transport = [h \in Clients \cup {Shared} |-> <<>>]
    /\ url = [c \in Clients |-> opts[c].listen]
    /\ hops = [c \in Clients |-> 0]
    /\ sent = {}

Construct(c) == ApplyOption(c) \/ New(c) \/ OpenFile(c) \/ OpenFails(c) \/ Stat(c) \/ ReadAll(c)

Next ==
    \/ \E c \in Clients :
         Construct(c) \/ Request(c) \/ RoundTrip(c) \/ Redirect(c) \/ Respond(c)
    \/ \E name \in Names : Rebind(name)
    \/ \E i \in Inodes : Chmod(i) \/ Rewrite(i)

(* A system call on a local file returns.                                  *)
Spec == Init /\ [][Next]_vars /\ \A c \in Clients : WF_vars(Construct(c))

-----------------------------------------------------------------------------
Built(c) == pc[c] \in {"ready", "trip", "wait"}
Given(c, opt) == \E i \in 1..Len(opts[c].options) : opts[c].options[i].opt = opt

GivenOption(c, option) == \E i \in 1..Len(opts[c].options) : opts[c].options[i] = option

(* The client's token is one that the file it opened has held, and its     *)
(* token file's path has referred to that file.                            *)
ReadFrom(c) ==
    /\ fd[c] \in bound[client[c].tokenFile]
    /\ \E f \in was[fd[c]] : f.body.token = client[c].token

(* The client carries the token of the first source it has, in the order   *)
(* file, option, environment, default file, and opened a file only for it. *)
OwnSource(c) ==
    IF Given(c, "file")
    THEN /\ GivenOption(c, WithTokenFile(client[c].tokenFile))
         /\ client[c].token # Anonymous
         /\ ReadFrom(c)
    ELSE IF Given(c, "token") THEN fd[c] = NoFile /\ GivenOption(c, WithToken(client[c].token))
    ELSE IF env.token # Anonymous \/ env.marked THEN fd[c] = NoFile /\ client[c].token = env.token
    ELSE IF fd[c] = NoFile THEN client[c].token = Anonymous
    ELSE client[c].tokenFile = DefaultPath /\ ReadFrom(c)

(* WithTokenFile: "Missing or insecure explicit files fail New", and it    *)
(* "takes precedence over WithToken and TETHER_TOKEN, independent of       *)
(* option order"; "A session/anonymous proxy must not acquire the          *)
(* operator's authority".  A client built with an explicit file carries a  *)
(* token read from the file it opened at a path it was given, whatever     *)
(* failed and whatever else was given; a process's own token or marker     *)
(* keeps every other client from the default file.                         *)
NeverFallsBack == \A c \in Clients : Built(c) => OwnSource(c)

(* The token of a client that read one came from a file that really was a  *)
(* regular, private file, whatever happened to the path and to the file's  *)
(* mode between open, stat and read (readTokenFile checks the open file).  *)
ReadsOnlyPrivate ==
    \A c \in Clients : Built(c) /\ fd[c] # NoFile =>
        \E f \in was[fd[c]] : f.kind = "regular" /\ f.private

(* "Do not mutate a caller-owned client/transport": clients built around   *)
(* one http.Client each send their own token, or none, with every request, *)
(* redirected ones included.                                               *)
OwnToken == \A s \in sent : s.token = client[s.from].token

(* "Refuse before sending either credential or request there": no request  *)
(* of an authenticated client reaches an origin other than its own, by any *)
(* chain of redirects.                                                     *)
StaysHome ==
    \A s \in sent : client[s.from].token # Anonymous => s.to = client[s.from].origin

(* New returns, whatever kind of file is at the path (O_NONBLOCK) and      *)
(* however often it is replaced.                                           *)
NewReturns == \A c \in Clients : <>(pc[c] \notin {"new", "open", "stat", "read"})
=============================================================================
