------------------------- MODULE CredentialsProofs -------------------------
(***************************************************************************)
(* Proofs for Credentials: whatever the options, the environment and the   *)
(* changes of the file system, a client built from an explicit source      *)
(* never falls back, only a file that was private is read, and every       *)
(* request carries its own client's token, to its own client's origin.     *)
(***************************************************************************)
EXTENDS Credentials, SequenceTheorems, TLAPS

(* The fields of a Client that New sets.                                   *)
IsClient(k) ==
    k = [origin |-> k.origin, http |-> k.http, token |-> k.token, tokenSet |-> k.tokenSet,
         tokenFile |-> k.tokenFile, tokenFileSet |-> k.tokenFileSet]

PCs == {"new", "open", "stat", "read", "ready", "failed", "trip", "wait"}

(* The variables are functions over the clients, the http.Clients and the  *)
(* inodes, and hold records of the fields the actions update.              *)
TypeOK ==
    /\ opts \in Setups
    /\ DOMAIN names = Names /\ DOMAIN bound = Names
    /\ DOMAIN inode = Inodes /\ DOMAIN was = Inodes
    /\ \A i \in Inodes : IsFile(inode[i]) /\ inode[i].private \in BOOLEAN
    /\ pc \in [Clients -> PCs]
    /\ DOMAIN client = Clients
    /\ \A c \in Clients : IsClient(client[c])
    /\ applied \in [Clients -> Nat]
    /\ fd \in [Clients -> Inodes \cup {NoFile}]
    /\ DOMAIN transport = Clients \cup {Shared}
    /\ DOMAIN url = Clients
    /\ \A c \in Clients : IsOrigin(url[c]) /\ IsOrigin(client[c].origin)

(* An option of the kind is among the first n of the client's.             *)
Seen(c, opt, n) == \E i \in 1..n : opts[c].options[i].opt = opt

(* What the loop over the options has done so far.                         *)
OptionsInv(c) ==
    LET k == client[c] IN
    /\ applied[c] <= Len(opts[c].options)
    /\ pc[c] # "new" => applied[c] = Len(opts[c].options)
    /\ k.tokenFileSet <=> Seen(c, "file", applied[c])
    /\ k.tokenSet <=> Seen(c, "token", applied[c])
    /\ k.tokenFileSet => \E i \in 1..applied[c] : opts[c].options[i] = WithTokenFile(k.tokenFile)
    /\ k.tokenSet /\ ~(Built(c) /\ k.tokenFileSet) =>
          \E i \in 1..applied[c] : opts[c].options[i] = WithToken(k.token)

(* No source precedes the default file.                                    *)
Defaults(c) == ~client[c].tokenSet /\ env.token = Anonymous /\ ~env.marked

(* A file has held the token.                                              *)
Held(i, t) == \E f \in was[i] : f.body.token = t

(* Where a built client with token t has it from: the explicit file if one *)
(* was asked for, the default one only if there is no other source.        *)
Sourced(c, t) ==
    IF client[c].tokenFileSet THEN fd[c] # NoFile /\ t # Anonymous /\ Held(fd[c], t)
    ELSE IF fd[c] = NoFile THEN t = IF client[c].tokenSet THEN client[c].token ELSE env.token
    ELSE Defaults(c) /\ client[c].tokenFile = DefaultPath /\ Held(fd[c], t)

(* Which sources a client has used when it is where it is: a file is open  *)
(* only if one was asked for or nothing else was given, it has been at its *)
(* path, and an explicit one was read to the end before the client was     *)
(* built.                                                                  *)
SourceInv(c) ==
    /\ pc[c] \in {"new", "open"} => fd[c] = NoFile
    /\ pc[c] \in {"open", "stat", "read"} =>
          /\ client[c].tokenFile \in Names
          /\ client[c].tokenFileSet \/ (Defaults(c) /\ client[c].tokenFile = DefaultPath)
    /\ pc[c] \in {"stat", "read"} => fd[c] # NoFile
    /\ fd[c] # NoFile => client[c].tokenFile \in Names /\ fd[c] \in bound[client[c].tokenFile]
    /\ Built(c) => Sourced(c, client[c].token)

(* What an inode has been: a regular and private file.                     *)
WasPrivate(i) == \E f \in was[i] : f.kind = "regular" /\ f.private

(* The histories hold the present, and a client that went past the check   *)
(* of its file had it open while it was regular and private.               *)
PrivateInv ==
    /\ \A n \in Names : names[n] \in bound[n]
    /\ \A i \in Inodes : inode[i] \in was[i]
    /\ \A c \in Clients : (pc[c] = "read" \/ Built(c)) /\ fd[c] # NoFile => WasPrivate(fd[c])

(* The layers a built client's requests go through: its own or none.       *)
OwnLayers(c) ==
    IF client[c].token = Anonymous THEN <<>>
    ELSE <<[token |-> client[c].token, origin |-> client[c].origin]>>

(* No layer is ever put around the caller's http.Client, none around a     *)
(* client's before it is built, and then only its own.                     *)
TransportInv ==
    /\ transport[Shared] = <<>>
    /\ \A c \in Clients :
         /\ client[c].http \in {c, Shared}
         /\ ~Built(c) => transport[c] = <<>>
         /\ Built(c) => Layers(c) = OwnLayers(c)

(* Requests come from built clients, carry their token and stay with their *)
(* origin if it is not empty.                                              *)
SentInv ==
    \A s \in sent :
        /\ s.from \in Clients
        /\ Built(s.from)
        /\ s.token = client[s.from].token
        /\ client[s.from].token # Anonymous => s.to = client[s.from].origin

IndInv ==
    /\ TypeOK
    /\ \A c \in Clients : OptionsInv(c) /\ SourceInv(c)
    /\ PrivateInv
    /\ TransportInv
    /\ SentInv

-----------------------------------------------------------------------------
(* The steps of New. *)

(* A step of one client's construction leaves the other clients and the    *)
(* caller's http.Client alone.                                             *)
Elsewhere(c) ==
    /\ \A d \in Clients \ {c} : client'[d] = client[d] /\ transport'[d] = transport[d]
    /\ transport'[Shared] = transport[Shared]
    /\ DOMAIN client' = Clients
    /\ DOMAIN transport' = Clients \cup {Shared}
    /\ IsClient(client'[c])

(* The fields that only options set.                                       *)
SameSources(k, m) ==
    /\ m.origin = k.origin
    /\ m.tokenSet = k.tokenSet
    /\ m.tokenFileSet = k.tokenFileSet
    /\ k.tokenFileSet => m.tokenFile = k.tokenFile

(* The client is built, with the token.                                    *)
Ready(c, t) ==
    /\ pc' = [pc EXCEPT ![c] = "ready"]
    /\ Elsewhere(c)
    /\ SameSources(client[c], client'[c])
    /\ client'[c].tokenFile = client[c].tokenFile
    /\ client'[c].token = t
    /\ client'[c].http \in {c, Shared}
    /\ transport'[client'[c].http] = OwnLayers(c)'

(* The client goes on to open a file.                                      *)
Opens(c) ==
    /\ pc' = [pc EXCEPT ![c] = "open"]
    /\ Elsewhere(c)
    /\ SameSources(client[c], client'[c])
    /\ client'[c].tokenFile \in Names
    /\ client'[c].tokenFileSet \/ (Defaults(c) /\ client'[c].tokenFile = DefaultPath)
    /\ client'[c].token = client[c].token
    /\ client'[c].http = client[c].http
    /\ transport' = transport

(* Setting the token of a client leaves its other fields                   *)
(* (configureCredentials).                                                 *)
LEMMA SetToken ==
    ASSUME NEW k, IsClient(k), NEW t, NEW m, m = [k EXCEPT !.token = t]
    PROVE  IsClient(m) /\ m.token = t /\ m.http = k.http /\ m.tokenFile = k.tokenFile /\ SameSources(k, m)
  <1>1. PICK a, b, d, e, f, g : k = [origin |-> a, http |-> b, token |-> d, tokenSet |-> e, tokenFile |-> f, tokenFileSet |-> g]
    BY DEF IsClient
  <1>2. m = [origin |-> a, http |-> b, token |-> t, tokenSet |-> e, tokenFile |-> f, tokenFileSet |-> g]
    BY <1>1
  <1>3. IsClient(m) BY <1>2 DEF IsClient
  <1> QED BY <1>1, <1>2, <1>3 DEF SameSources

(* So does replacing its http.Client (configureCredentials).               *)
LEMMA SetHTTP ==
    ASSUME NEW k, IsClient(k), NEW h, NEW m, m = [k EXCEPT !.http = h]
    PROVE  IsClient(m) /\ m.http = h /\ m.token = k.token /\ m.tokenFile = k.tokenFile /\ SameSources(k, m)
  <1>1. PICK a, b, d, e, f, g : k = [origin |-> a, http |-> b, token |-> d, tokenSet |-> e, tokenFile |-> f, tokenFileSet |-> g]
    BY DEF IsClient
  <1>2. m = [origin |-> a, http |-> h, token |-> d, tokenSet |-> e, tokenFile |-> f, tokenFileSet |-> g]
    BY <1>1
  <1>3. IsClient(m) BY <1>2 DEF IsClient
  <1> QED BY <1>1, <1>2, <1>3 DEF SameSources

(* So does taking the default path of a client without one (resolveToken). *)
LEMMA SetPath ==
    ASSUME NEW k, IsClient(k), ~k.tokenFileSet, NEW p, NEW m, m = [k EXCEPT !.tokenFile = p]
    PROVE  IsClient(m) /\ m.tokenFile = p /\ m.http = k.http /\ m.token = k.token /\ SameSources(k, m)
  <1>1. PICK a, b, d, e, f, g : k = [origin |-> a, http |-> b, token |-> d, tokenSet |-> e, tokenFile |-> f, tokenFileSet |-> g]
    BY DEF IsClient
  <1>2. m = [origin |-> a, http |-> b, token |-> d, tokenSet |-> e, tokenFile |-> p, tokenFileSet |-> g]
    BY <1>1
  <1>3. IsClient(m) BY <1>2 DEF IsClient
  <1> QED BY <1>1, <1>2, <1>3 DEF SameSources

(* A layer around a bare transport is the only one.                        *)
LEMMA OneLayer ==
    ASSUME NEW layer
    PROVE  <<layer>> \o <<>> = <<layer>>
  <1>1. <<layer>> \in Seq({layer})
    OBVIOUS
  <1> QED BY <1>1, ConcatEmptySeq

(* configureCredentials fails, or the client is built: its requests go     *)
(* through one layer, its own, or through none (the http.Client is copied  *)
(* and the caller's has no layer).                                         *)
LEMMA ConfigureStep ==
    ASSUME IndInv, NEW c \in Clients, ~Built(c), NEW t, Configure(c, client[c], t)
    PROVE  Fail(c) \/ Ready(c, t)
  <1> DEFINE k == client[c]
             kt == [k EXCEPT !.token = t]
             kh == [kt EXCEPT !.http = c]
  <1>1. IsClient(k) /\ DOMAIN client = Clients /\ DOMAIN transport = Clients \cup {Shared}
    BY DEF IndInv, TypeOK
  <1>2. k.http \in {c, Shared} /\ transport[k.http] = <<>>
    BY DEF IndInv, TransportInv
  <1>3. IsClient(kt) /\ kt.token = t /\ kt.http = k.http /\ kt.tokenFile = k.tokenFile /\ SameSources(k, kt)
    BY <1>1, SetToken
  <1> HIDE DEF kt
  <1>4. IsClient(kh) /\ kh.http = c /\ kh.token = t /\ kh.tokenFile = kt.tokenFile /\ SameSources(kt, kh)
    BY <1>3, SetHTTP
  <1>5. SameSources(k, kh)
    BY <1>3, <1>4 DEF SameSources
  <1>6. Shared # c /\ c \in Clients
    BY CredentialsAssumption
  <1> HIDE DEF kh
  <1>7. CASE t # Anonymous /\ ~(validBearerToken(t) /\ ValidOrigin(k.origin))
    BY <1>7 DEF Configure
  <1>8. CASE t = Anonymous
    <2>1. /\ pc' = [pc EXCEPT ![c] = "ready"]
          /\ client' = [client EXCEPT ![c] = kt]
          /\ transport' = transport
      BY <1>8 DEF Configure, kt
    <2>2. client'[c] = kt /\ DOMAIN client' = Clients /\ \A d \in Clients \ {c} : client'[d] = client[d]
      BY <1>1, <2>1
    <2>3. Elsewhere(c)
      BY <1>1, <1>3, <2>1, <2>2 DEF Elsewhere
    <2>4. transport'[client'[c].http] = OwnLayers(c)'
      BY <1>2, <1>3, <1>8, <2>1, <2>2 DEF OwnLayers
    <2> QED BY <1>2, <1>3, <2>1, <2>2, <2>3, <2>4 DEF Ready
  <1>9. CASE t # Anonymous /\ validBearerToken(t) /\ ValidOrigin(k.origin)
    <2> DEFINE layer == [token |-> t, origin |-> k.origin]
    <2>1. /\ pc' = [pc EXCEPT ![c] = "ready"]
          /\ client' = [client EXCEPT ![c] = kh]
          /\ transport' = [transport EXCEPT ![c] = <<layer>> \o transport[kt.http]]
      BY <1>9 DEF Configure, Wrap, kt, kh
    <2>2. client'[c] = kh /\ DOMAIN client' = Clients /\ \A d \in Clients \ {c} : client'[d] = client[d]
      BY <1>1, <2>1
    <2> HIDE DEF layer
    <2>3. <<layer>> \o transport[kt.http] = <<layer>>
      BY <1>2, <1>3, OneLayer
    <2>4. /\ transport'[c] = <<layer>>
          /\ DOMAIN transport' = Clients \cup {Shared}
          /\ \A h \in (Clients \cup {Shared}) \ {c} : transport'[h] = transport[h]
      BY <1>1, <2>1, <2>3
    <2>5. Elsewhere(c)
      BY <1>4, <1>6, <2>2, <2>4 DEF Elsewhere
    <2>6. kh.origin = k.origin
      BY <1>5 DEF SameSources
    <2>7. transport'[client'[c].http] = OwnLayers(c)'
      BY <1>4, <1>9, <2>2, <2>4, <2>6 DEF OwnLayers, layer
    <2> QED BY <1>3, <1>4, <1>5, <2>1, <2>2, <2>5, <2>7 DEF Ready
  <1> QED BY <1>7, <1>8, <1>9

(* resolveToken, and with it New, fails, goes on to open a file that was   *)
(* asked for or that nothing precedes, or builds the client from a source  *)
(* that is not a file.                                                     *)
LEMMA ResolveStep ==
    ASSUME IndInv, NEW c \in Clients, ~Built(c), resolveToken(c, client[c])
    PROVE  \/ Fail(c)
           \/ Opens(c)
           \/ /\ ~client[c].tokenFileSet
              /\ Ready(c, IF client[c].tokenSet THEN client[c].token ELSE env.token)
  <1> DEFINE k == client[c]
             kd == [k EXCEPT !.tokenFile = DefaultPath]
             own == IF k.tokenSet THEN k.token ELSE env.token
  <1>1. IsClient(k) /\ DOMAIN client = Clients /\ DOMAIN transport = Clients \cup {Shared}
    BY DEF IndInv, TypeOK
  <1>2. ASSUME k.tokenFileSet, k.tokenFile # "", OpenNext(c, k)
        PROVE  Opens(c)
    <2>1. client'[c] = k /\ DOMAIN client' = Clients /\ (\A d \in Clients \ {c} : client'[d] = client[d])
      BY <1>1, <1>2 DEF OpenNext
    <2>2. Elsewhere(c)
      BY <1>1, <1>2, <2>1 DEF Elsewhere, OpenNext
    <2>3. SameSources(k, k)
      BY DEF SameSources
    <2>4. PICK i \in 1..applied[c] : opts[c].options[i] = WithTokenFile(k.tokenFile)
      BY <1>2 DEF IndInv, OptionsInv
    <2>5. i \in 1..Len(opts[c].options)
      BY <2>4, CredentialsAssumption DEF IndInv, OptionsInv, TypeOK
    <2>6. IsOption(WithTokenFile(k.tokenFile))
      BY <2>4, <2>5, CredentialsAssumption DEF IndInv, TypeOK
    <2>7. k.tokenFile \in Names
      BY <1>2, <2>6 DEF IsOption, WithTokenFile, WithHTTPClient
    <2> QED BY <1>2, <2>1, <2>2, <2>3, <2>7 DEF Opens, OpenNext
  <1>3. ASSUME ~k.tokenFileSet, Defaults(c), OpenNext(c, kd)
        PROVE  Opens(c)
    <2>1. ~k.tokenFileSet
      BY <1>3
    <2>2. IsClient(kd) /\ kd.http = k.http /\ kd.token = k.token /\ kd.tokenFile = DefaultPath /\ SameSources(k, kd)
      BY <1>1, <2>1, SetPath
    <2> HIDE DEF kd
    <2>3. client'[c] = kd /\ DOMAIN client' = Clients /\ (\A d \in Clients \ {c} : client'[d] = client[d])
      BY <1>1, <1>3 DEF OpenNext
    <2>4. Elsewhere(c)
      BY <1>1, <1>3, <2>2, <2>3 DEF Elsewhere, OpenNext
    <2> QED BY <1>3, <2>2, <2>3, <2>4, CredentialsAssumption DEF Opens, OpenNext
  <1>4. ASSUME NEW t, Configure(c, k, t)
        PROVE  Fail(c) \/ Ready(c, t)
    BY <1>4, ConfigureStep
  <1>5. CASE k.tokenFileSet
    BY <1>2, <1>5 DEF resolveToken
  <1>6. CASE ~k.tokenFileSet
    <2>1. CASE k.tokenSet \/ env.token # Anonymous \/ env.marked
      <3>1. Configure(c, k, own)
        BY <1>6, <2>1 DEF resolveToken
      <3>2. Fail(c) \/ Ready(c, own)
        BY <1>4, <3>1
      <3> QED BY <1>6, <3>2
    <2>2. CASE ~(k.tokenSet \/ env.token # Anonymous \/ env.marked)
      <3>1. Fail(c) \/ OpenNext(c, kd)
        BY <1>6, <2>2 DEF resolveToken
      <3>2. Defaults(c)
        BY <2>2 DEF Defaults
      <3> QED BY <1>3, <1>6, <3>1, <3>2
    <2> QED BY <2>1, <2>2
  <1> QED BY <1>5, <1>6

-----------------------------------------------------------------------------
(* Each kind of step preserves the invariant. *)

(* The variables that no step of New changes, except for its own.          *)
Beyond == UNCHANGED <<opts, env, files, calls>>

(* A client that stays as it is, or fails, keeps its sources.              *)
LEMMA SameSource ==
    ASSUME IndInv, NEW d \in Clients, UNCHANGED <<env, bound, was>>, client'[d] = client[d], fd'[d] = fd[d],
           pc'[d] = pc[d] \/ pc'[d] = "failed"
    PROVE  SourceInv(d)'
  <1>1. SourceInv(d)
    BY DEF IndInv
  <1>2. Built(d)' => Built(d)
    BY DEF Built
  <1>3. Defaults(d)' <=> Defaults(d)
    BY DEF Defaults
  <1>4. \A t : Held(fd[d], t) => Held(fd[d], t)'
    BY DEF Held
  <1>5. Built(d)' => Sourced(d, client[d].token)'
    BY <1>1, <1>2, <1>3, <1>4 DEF SourceInv, Sourced, Held
  <1> QED BY <1>1, <1>2, <1>3, <1>5 DEF SourceInv

(* New returns an error.                                                   *)
LEMMA FailKeeps ==
    ASSUME IndInv, NEW c \in Clients, ~Built(c), Fail(c), Beyond, UNCHANGED <<applied, fd>>,
           applied[c] = Len(opts[c].options)
    PROVE  IndInv'
  <1>1. pc' \in [Clients -> PCs] /\ pc'[c] = "failed" /\ (\A d \in Clients \ {c} : pc'[d] = pc[d])
    BY DEF IndInv, TypeOK, PCs, Fail
  <1>2. \A d \in Clients : Built(d)' => Built(d) /\ d # c /\ pc'[d] = pc[d]
    BY <1>1 DEF Built
  <1>3. \A d \in Clients : Built(d) => Built(d)'
    BY <1>1 DEF Built
  <1>4. TypeOK'
    BY <1>1 DEF IndInv, TypeOK, Fail, Beyond, files, calls
  <1>5. ASSUME NEW d \in Clients
        PROVE  OptionsInv(d)'
    BY <1>1, <1>2, <1>3 DEF IndInv, OptionsInv, Fail, Beyond, Seen
  <1>6. ASSUME NEW d \in Clients
        PROVE  SourceInv(d)'
    BY <1>1, SameSource DEF Fail, Beyond, files
  <1>7. PrivateInv'
    BY <1>1, <1>2 DEF IndInv, PrivateInv, WasPrivate, Fail, Beyond, files
  <1>8. TransportInv'
    BY <1>2, <1>3 DEF IndInv, TransportInv, Fail, Layers, OwnLayers
  <1>9. SentInv'
    BY <1>3 DEF IndInv, SentInv, Fail, Beyond, calls
  <1> QED BY <1>4, <1>5, <1>6, <1>7, <1>8, <1>9 DEF IndInv

(* New goes on to open a file.                                             *)
LEMMA OpensKeeps ==
    ASSUME IndInv, NEW c \in Clients, pc[c] = "new", Opens(c),
           Beyond, UNCHANGED <<applied, fd>>, applied[c] = Len(opts[c].options)
    PROVE  IndInv'
  <1>1. pc' \in [Clients -> PCs] /\ pc'[c] = "open" /\ (\A d \in Clients \ {c} : pc'[d] = pc[d])
    BY DEF IndInv, TypeOK, PCs, Opens
  <1>2. \A d \in Clients : Built(d)' => Built(d) /\ d # c /\ pc'[d] = pc[d]
    BY <1>1 DEF Built
  <1>3. \A d \in Clients : Built(d) => Built(d)' /\ d # c
    BY <1>1 DEF Built
  <1>4. /\ \A d \in Clients \ {c} : client'[d] = client[d]
        /\ DOMAIN client' = Clients
        /\ IsClient(client'[c])
        /\ client'[c].http = client[c].http
        /\ client'[c].origin = client[c].origin
        /\ client'[c].tokenSet = client[c].tokenSet
        /\ client'[c].tokenFileSet = client[c].tokenFileSet
        /\ client[c].tokenFileSet => client'[c].tokenFile = client[c].tokenFile
        /\ client'[c].token = client[c].token
        /\ client'[c].tokenFile \in Names
        /\ client'[c].tokenFileSet \/ (Defaults(c) /\ client'[c].tokenFile = DefaultPath)
        /\ transport' = transport
    BY DEF Opens, Elsewhere, SameSources
  <1>5. TypeOK'
    BY <1>1, <1>4 DEF IndInv, TypeOK, Beyond, files, calls
  <1>6. ASSUME NEW d \in Clients
        PROVE  OptionsInv(d)'
    <2>1. CASE d = c
      BY <1>1, <1>2, <1>4, <2>1 DEF IndInv, OptionsInv, Beyond, Seen, Built
    <2>2. CASE d # c
      BY <1>1, <1>2, <1>3, <1>4, <2>2 DEF IndInv, OptionsInv, Beyond, Seen
    <2> QED BY <2>1, <2>2
  <1>7. ASSUME NEW d \in Clients
        PROVE  SourceInv(d)'
    <2>1. CASE d = c
      BY <1>1, <1>2, <1>4, <2>1 DEF IndInv, SourceInv, Beyond, Defaults
    <2>2. CASE d # c
      BY <1>1, <1>4, <2>2, SameSource DEF Beyond, files
    <2> QED BY <2>1, <2>2
  <1>8. PrivateInv'
    BY <1>1, <1>2 DEF IndInv, PrivateInv, WasPrivate, Beyond, files
  <1>9. TransportInv'
    <2>1. transport'[Shared] = <<>>
      BY <1>4 DEF IndInv, TransportInv
    <2>2. ASSUME NEW d \in Clients
          PROVE  /\ client'[d].http \in {d, Shared}
                 /\ ~Built(d)' => transport'[d] = <<>>
                 /\ Built(d)' => Layers(d)' = OwnLayers(d)'
      <3>1. client[d].http \in {d, Shared} /\ (~Built(d) => transport[d] = <<>>) /\ (Built(d) => Layers(d) = OwnLayers(d))
        BY DEF IndInv, TransportInv
      <3>2. client'[d].http = client[d].http
        BY <1>4
      <3>3. Built(d)' <=> Built(d)
        BY <1>2, <1>3
      <3>4. Built(d)' => client'[d] = client[d]
        BY <1>2, <1>4
      <3> QED BY <1>4, <3>1, <3>2, <3>3, <3>4 DEF Layers, OwnLayers
    <2> QED BY <2>1, <2>2 DEF TransportInv
  <1>10. SentInv'
    BY <1>3, <1>4 DEF IndInv, SentInv, Beyond, calls
  <1> QED BY <1>5, <1>6, <1>7, <1>8, <1>9, <1>10 DEF IndInv

(* New returns a client.                                                   *)
LEMMA ReadyKeeps ==
    ASSUME IndInv, NEW c \in Clients, ~Built(c), NEW t, Ready(c, t), Beyond, UNCHANGED <<applied, fd>>,
           applied[c] = Len(opts[c].options),
           Sourced(c, t), fd[c] # NoFile => WasPrivate(fd[c])
    PROVE  IndInv'
  <1>1. pc' \in [Clients -> PCs] /\ pc'[c] = "ready" /\ (\A d \in Clients \ {c} : pc'[d] = pc[d])
    BY DEF IndInv, TypeOK, PCs, Ready
  <1>2. Built(c)' /\ \A d \in Clients \ {c} : Built(d)' <=> Built(d)
    BY <1>1 DEF Built
  <1>3. /\ \A d \in Clients \ {c} : client'[d] = client[d] /\ transport'[d] = transport[d]
        /\ transport'[Shared] = transport[Shared]
        /\ DOMAIN transport' = Clients \cup {Shared}
        /\ DOMAIN client' = Clients
        /\ IsClient(client'[c])
        /\ client'[c].token = t
        /\ client'[c].origin = client[c].origin
        /\ client'[c].tokenSet = client[c].tokenSet
        /\ client'[c].tokenFileSet = client[c].tokenFileSet
        /\ client'[c].tokenFile = client[c].tokenFile
    BY DEF Ready, Elsewhere, SameSources
  <1>4. client'[c].http \in {c, Shared} /\ transport'[client'[c].http] = OwnLayers(c)'
    BY DEF Ready
  <1>5. TypeOK'
    BY <1>1, <1>3 DEF IndInv, TypeOK, Beyond, files, calls
  <1>6. ASSUME NEW d \in Clients
        PROVE  OptionsInv(d)'
    <2>1. CASE d = c
      <3>1. client[c].tokenSet /\ ~client[c].tokenFileSet => t = client[c].token
        BY DEF Sourced, Defaults
      <3> QED BY <1>1, <1>2, <1>3, <2>1, <3>1 DEF IndInv, OptionsInv, Beyond, Seen
    <2>2. CASE d # c
      BY <1>1, <1>2, <1>3, <2>2 DEF IndInv, OptionsInv, Beyond, Seen
    <2> QED BY <2>1, <2>2
  <1>7. ASSUME NEW d \in Clients
        PROVE  SourceInv(d)'
    <2>1. CASE d = c
      <3>1. UNCHANGED <<env, bound, was, fd>>
        BY DEF Beyond, files
      <3>2. fd[c] # NoFile => client[c].tokenFile \in Names /\ fd[c] \in bound[client[c].tokenFile]
        BY DEF IndInv, SourceInv
      <3>3. IF client[c].tokenFileSet THEN fd[c] # NoFile /\ t # Anonymous /\ Held(fd[c], t)
            ELSE IF fd[c] = NoFile THEN client[c].tokenSet \/ t = env.token
            ELSE Defaults(c) /\ client[c].tokenFile = DefaultPath /\ Held(fd[c], t)
        BY DEF Sourced
      <3>4. (Defaults(c)' <=> Defaults(c)) /\ (Held(fd[c], t) => Held(fd[c], t)')
        BY <1>3, <3>1 DEF Defaults, Held
      <3>5. Sourced(c, client[c].token)'
        BY <1>3, <3>1, <3>3, <3>4 DEF Sourced, Held
      <3> QED BY <1>1, <1>3, <2>1, <3>1, <3>2, <3>5 DEF SourceInv
    <2>2. CASE d # c
      BY <1>1, <1>3, <2>2, SameSource DEF Beyond, files
    <2> QED BY <2>1, <2>2
  <1>8. PrivateInv'
    BY <1>1, <1>2 DEF IndInv, PrivateInv, WasPrivate, Beyond, files
  <1>9. TransportInv'
    <2>1. transport'[Shared] = <<>>
      BY <1>3 DEF IndInv, TransportInv
    <2>2. ASSUME NEW d \in Clients
          PROVE  /\ client'[d].http \in {d, Shared}
                 /\ ~Built(d)' => transport'[d] = <<>>
                 /\ Built(d)' => Layers(d)' = OwnLayers(d)'
      <3>1. CASE d = c
        BY <1>2, <1>4, <3>1 DEF Layers
      <3>2. CASE d # c
        <4>1. client[d].http \in {d, Shared} /\ (~Built(d) => transport[d] = <<>>) /\ (Built(d) => Layers(d) = OwnLayers(d))
          BY DEF IndInv, TransportInv
        <4>2. client'[d] = client[d] /\ transport'[client'[d].http] = transport[client[d].http]
          BY <1>3, <3>2, <4>1
        <4> QED BY <1>2, <1>3, <3>2, <4>1, <4>2 DEF Layers, OwnLayers
      <3> QED BY <3>1, <3>2
    <2> QED BY <2>1, <2>2 DEF TransportInv
  <1>10. SentInv'
    <2>1. \A s \in sent : s.from \in Clients \ {c} /\ Built(s.from)
      BY DEF IndInv, SentInv
    <2>2. \A s \in sent : Built(s.from)' /\ client'[s.from] = client[s.from]
      BY <1>2, <1>3, <2>1
    <2> QED BY <2>1, <2>2 DEF IndInv, SentInv, Beyond, calls
  <1> QED BY <1>5, <1>6, <1>7, <1>8, <1>9, <1>10 DEF IndInv

(* New's call of resolveToken, with what it does before the first file     *)
(* operation.                                                              *)
LEMMA NewKeeps ==
    ASSUME IndInv, NEW c \in Clients, New(c)
    PROVE  IndInv'
  <1>1. pc[c] = "new" /\ ~Built(c) /\ fd[c] = NoFile
    BY DEF New, Built, IndInv, SourceInv
  <1>2. applied[c] = Len(opts[c].options) /\ Beyond /\ UNCHANGED <<applied, fd>>
    BY DEF New, Beyond
  <1> DEFINE own == IF client[c].tokenSet THEN client[c].token ELSE env.token
  <1>3. Fail(c) \/ Opens(c) \/ (~client[c].tokenFileSet /\ Ready(c, own))
    BY <1>1, ResolveStep DEF New
  <1>4. CASE Fail(c)
    BY <1>1, <1>2, <1>4, FailKeeps
  <1>5. CASE Opens(c)
    BY <1>1, <1>2, <1>5, OpensKeeps
  <1>6. CASE ~client[c].tokenFileSet /\ Ready(c, own)
    <2>1. Sourced(c, own)
      BY <1>1, <1>6 DEF Sourced
    <2> HIDE DEF own
    <2> QED BY <1>1, <1>2, <1>6, <2>1, ReadyKeeps
  <1> QED BY <1>3, <1>4, <1>5, <1>6

(* The file cannot be opened: New fails, or has no token because the       *)
(* default file is missing.                                                *)
LEMMA OpenFailsKeeps ==
    ASSUME IndInv, NEW c \in Clients, OpenFails(c)
    PROVE  IndInv'
  <1>1. pc[c] = "open" /\ ~Built(c) /\ fd[c] = NoFile /\ applied[c] = Len(opts[c].options)
    BY DEF OpenFails, Built, IndInv, SourceInv, OptionsInv
  <1>2. Beyond /\ UNCHANGED <<applied, fd>>
    BY DEF OpenFails, Beyond
  <1>3. Fail(c) \/ (~client[c].tokenFileSet /\ Ready(c, Anonymous))
    BY <1>1, ConfigureStep DEF OpenFails
  <1>4. CASE Fail(c)
    BY <1>1, <1>2, <1>4, FailKeeps
  <1>5. CASE ~client[c].tokenFileSet /\ Ready(c, Anonymous)
    <2>1. Sourced(c, Anonymous)
      BY <1>1, <1>5 DEF IndInv, SourceInv, Sourced, Defaults
    <2> QED BY <1>1, <1>2, <1>5, <2>1, ReadyKeeps
  <1> QED BY <1>3, <1>4, <1>5

(* The open file is read, and its token is not the empty one.              *)
LEMMA ReadAllKeeps ==
    ASSUME IndInv, NEW c \in Clients, ReadAll(c)
    PROVE  IndInv'
  <1>1. pc[c] = "read" /\ ~Built(c) /\ applied[c] = Len(opts[c].options)
    BY DEF ReadAll, Built, IndInv, OptionsInv
  <1>2. /\ fd[c] # NoFile
        /\ fd[c] \in Inodes
        /\ inode[fd[c]] \in was[fd[c]]
        /\ client[c].tokenFileSet \/ (Defaults(c) /\ client[c].tokenFile = DefaultPath)
        /\ WasPrivate(fd[c])
    BY <1>1 DEF IndInv, TypeOK, SourceInv, PrivateInv
  <1>3. Beyond /\ UNCHANGED <<applied, fd>>
    BY DEF ReadAll, Beyond
  <1> DEFINE body == inode[fd[c]].body
  <1>4. Fail(c) \/ (Accepted(body) /\ Ready(c, body.token))
    BY <1>1, ConfigureStep DEF ReadAll
  <1>5. Accepted(body) => body.token # Anonymous
    <2>1. Accepted(body) => body.token.size \in 1..256
      BY DEF Accepted, validBearerToken
    <2>2. Anonymous.size = 0
      BY DEF Anonymous
    <2>3. 0 \notin 1..256
      OBVIOUS
    <2> QED BY <2>1, <2>2, <2>3
  <1>6. Held(fd[c], body.token)
    BY <1>2 DEF Held
  <1> HIDE DEF body
  <1>7. CASE Fail(c)
    BY <1>1, <1>3, <1>7, FailKeeps
  <1>8. CASE Accepted(body) /\ Ready(c, body.token)
    <2>1. Sourced(c, body.token)
      BY <1>2, <1>5, <1>6, <1>8 DEF Sourced
    <2> QED BY <1>1, <1>2, <1>3, <1>8, <2>1, ReadyKeeps
  <1> QED BY <1>4, <1>7, <1>8

(* What an option does to the Client under construction, whichever it is.  *)
LEMMA ApplyFields ==
    ASSUME NEW k, IsClient(k), NEW o, IsOption(o)
    PROVE  /\ IsClient(Apply(k, o))
           /\ Apply(k, o).http \in {k.http, Shared}
           /\ Apply(k, o).tokenFileSet <=> k.tokenFileSet \/ o.opt = "file"
           /\ Apply(k, o).tokenSet <=> k.tokenSet \/ o.opt = "token"
           /\ o.opt = "file" => o = WithTokenFile(Apply(k, o).tokenFile)
           /\ o.opt # "file" => Apply(k, o).tokenFile = k.tokenFile
           /\ o.opt = "token" => o = WithToken(Apply(k, o).token)
           /\ o.opt # "token" => Apply(k, o).token = k.token
           /\ IsOrigin(k.origin) => IsOrigin(Apply(k, o).origin)
  <1>1. PICK a, b, d, e, f, g : k = [origin |-> a, http |-> b, token |-> d, tokenSet |-> e, tokenFile |-> f, tokenFileSet |-> g]
    BY DEF IsClient
  <1>2. CASE o.opt = "token"
    <2>1. Apply(k, o) = [origin |-> a, http |-> b, token |-> o.token, tokenSet |-> TRUE, tokenFile |-> f, tokenFileSet |-> g]
      BY <1>1, <1>2 DEF Apply
    <2>2. o = WithToken(o.token)
      BY <1>2 DEF IsOption, WithHTTPClient
    <2>3. IsClient(Apply(k, o))
      BY <2>1 DEF IsClient
    <2> QED BY <1>1, <1>2, <2>1, <2>2, <2>3
  <1>3. CASE o.opt = "file"
    <2>1. Apply(k, o) = [origin |-> a, http |-> b, token |-> d, tokenSet |-> e, tokenFile |-> o.path, tokenFileSet |-> TRUE]
      BY <1>1, <1>3 DEF Apply
    <2>2. o = WithTokenFile(o.path)
      <3>1. WithHTTPClient.opt = "http"
        BY DEF WithHTTPClient
      <3> QED BY <1>3, <3>1, Zenon DEF IsOption
    <2>3. IsClient(Apply(k, o))
      BY <2>1 DEF IsClient
    <2>4. o = WithTokenFile(Apply(k, o).tokenFile) /\ Apply(k, o).token = k.token
      BY <1>1, <2>1, <2>2
    <2> QED BY <1>1, <1>3, <2>1, <2>3, <2>4
  <1>4. CASE o.opt = "base"
    <2>1. Apply(k, o) = [origin |-> o.origin, http |-> b, token |-> d, tokenSet |-> e, tokenFile |-> f, tokenFileSet |-> g]
      BY <1>1, <1>4 DEF Apply
    <2>2. IsOrigin(o.origin)
      BY <1>4 DEF IsOption, WithHTTPClient
    <2> QED BY <1>1, <1>4, <2>1, <2>2 DEF IsClient
  <1>5. CASE o.opt = "http"
    <2>1. Apply(k, o) = [origin |-> a, http |-> Shared, token |-> d, tokenSet |-> e, tokenFile |-> f, tokenFileSet |-> g]
      BY <1>1, <1>5 DEF Apply
    <2>2. IsClient(Apply(k, o))
      BY <2>1 DEF IsClient
    <2> QED BY <1>1, <1>5, <2>1, <2>2
  <1>6. o.opt = "token" \/ o.opt = "file" \/ o.opt = "base" \/ o.opt = "http"
    <2>1. WithHTTPClient.opt = "http"
      BY DEF WithHTTPClient
    <2> QED BY <2>1, Zenon DEF IsOption
  <1> QED BY <1>2, <1>3, <1>4, <1>5, <1>6

(* One option is applied: the loop's invariant holds for one more.         *)
LEMMA ApplyOptionKeeps ==
    ASSUME IndInv, NEW c \in Clients, ApplyOption(c)
    PROVE  IndInv'
  <1>1. pc[c] = "new" /\ ~Built(c)
    BY DEF ApplyOption, Built
  <1>2. PICK n : n = applied[c]
    OBVIOUS
  <1>3. PICK o : o = opts[c].options[n + 1]
    OBVIOUS
  <1>4. PICK k : k = client[c]
    OBVIOUS
  <1>5. PICK m : m = Apply(k, o)
    OBVIOUS
  <1>6. n \in Nat /\ n < Len(opts[c].options) /\ Len(opts[c].options) \in Nat
    BY <1>2, CredentialsAssumption DEF ApplyOption, IndInv, TypeOK
  <1>7. IsOption(o)
    BY <1>3, <1>6, CredentialsAssumption DEF IndInv, TypeOK
  <1>8. IsClient(k) /\ DOMAIN client = Clients /\ IsOrigin(k.origin) /\ applied \in [Clients -> Nat]
    BY <1>4 DEF IndInv, TypeOK
  <1>9. /\ IsClient(m)
        /\ m.http \in {k.http, Shared}
        /\ m.tokenFileSet <=> k.tokenFileSet \/ o.opt = "file"
        /\ m.tokenSet <=> k.tokenSet \/ o.opt = "token"
        /\ o.opt = "file" => o = WithTokenFile(m.tokenFile)
        /\ o.opt # "file" => m.tokenFile = k.tokenFile
        /\ o.opt = "token" => o = WithToken(m.token)
        /\ o.opt # "token" => m.token = k.token
        /\ IsOrigin(m.origin)
    BY <1>5, <1>7, <1>8, ApplyFields
  <1>10. client' = [client EXCEPT ![c] = m] /\ applied' = [applied EXCEPT ![c] = n + 1]
    BY <1>2, <1>3, <1>4, <1>5 DEF ApplyOption
  <1>11. /\ client'[c] = m /\ DOMAIN client' = Clients
         /\ \A d \in Clients \ {c} : client'[d] = client[d] /\ applied'[d] = applied[d]
         /\ applied'[c] = n + 1 /\ applied' \in [Clients -> Nat]
    BY <1>6, <1>8, <1>10
  <1>12. /\ UNCHANGED <<opts, env, files, pc, fd, transport, calls>>
         /\ \A d \in Clients : Built(d)' <=> Built(d)
    BY DEF ApplyOption, Built
  <1>13. TypeOK'
    BY <1>9, <1>11, <1>12 DEF IndInv, TypeOK, files, calls
  <1>14. ASSUME NEW d \in Clients
         PROVE  OptionsInv(d)'
    <2>1. CASE d = c
      <3>1. /\ k.tokenFileSet <=> Seen(c, "file", n)
            /\ k.tokenSet <=> Seen(c, "token", n)
            /\ k.tokenFileSet => \E i \in 1..n : opts[c].options[i] = WithTokenFile(k.tokenFile)
            /\ k.tokenSet => \E i \in 1..n : opts[c].options[i] = WithToken(k.token)
        BY <1>1, <1>2, <1>4 DEF IndInv, OptionsInv
      <3>2. /\ Seen(c, "file", n + 1) <=> Seen(c, "file", n) \/ o.opt = "file"
            /\ Seen(c, "token", n + 1) <=> Seen(c, "token", n) \/ o.opt = "token"
        BY <1>3, <1>6 DEF Seen
      <3>3. m.tokenFileSet => \E i \in 1..(n + 1) : opts[c].options[i] = WithTokenFile(m.tokenFile)
        <4>1. CASE o.opt = "file"
          BY <1>3, <1>6, <1>9, <4>1
        <4>2. CASE o.opt # "file"
          BY <1>6, <1>9, <3>1, <4>2
        <4> QED BY <4>1, <4>2
      <3>4. opts' = opts /\ pc'[c] = "new"
        BY <1>1, <1>12
      <3>5. (m.tokenFileSet <=> Seen(c, "file", n + 1)) /\ (m.tokenSet <=> Seen(c, "token", n + 1))
        BY <1>9, <3>1, <3>2
      <3>6. m.tokenSet => \E i \in 1..(n + 1) : opts[c].options[i] = WithToken(m.token)
        <4>1. CASE o.opt = "token"
          BY <1>3, <1>6, <1>9, <4>1
        <4>2. CASE o.opt # "token"
          BY <1>6, <1>9, <3>1, <4>2
        <4> QED BY <4>1, <4>2
      <3>7. client'[d] = m /\ applied'[d] = n + 1 /\ pc'[d] = "new" /\ opts'[d] = opts[c] /\ opts'[c] = opts[c]
        BY <1>11, <2>1, <3>4
      <3>8. (m.tokenFileSet <=> Seen(c, "file", n + 1)') /\ (m.tokenSet <=> Seen(c, "token", n + 1)')
        BY <3>5, <3>7 DEF Seen
      <3>9. /\ applied'[d] <= Len(opts'[d].options)
            /\ client'[d].tokenFileSet <=> Seen(d, "file", applied[d])'
            /\ client'[d].tokenSet <=> Seen(d, "token", applied[d])'
        BY <1>6, <2>1, <3>7, <3>8
      <3>10. client'[d].tokenFileSet =>
               \E i \in 1..applied'[d] : opts'[d].options[i] = WithTokenFile(client'[d].tokenFile)
        BY <3>3, <3>7
      <3>11. client'[d].tokenSet => \E i \in 1..applied'[d] : opts'[d].options[i] = WithToken(client'[d].token)
        BY <3>6, <3>7
      <3> QED BY <3>7, <3>9, <3>10, <3>11 DEF OptionsInv
    <2>2. CASE d # c
      <3>1. /\ client'[d] = client[d] /\ applied'[d] = applied[d] /\ pc'[d] = pc[d] /\ opts' = opts
            /\ Built(d)' <=> Built(d)
        BY <1>11, <1>12, <2>2
      <3>2. \A opt, i : Seen(d, opt, i)' <=> Seen(d, opt, i)
        BY <3>1 DEF Seen
      <3>3. OptionsInv(d)
        BY DEF IndInv
      <3> QED BY <3>1, <3>2, <3>3 DEF OptionsInv
    <2> QED BY <2>1, <2>2
  <1>15. ASSUME NEW d \in Clients
         PROVE  SourceInv(d)'
    <2>1. CASE d = c
      BY <1>1, <1>12, <2>1 DEF IndInv, SourceInv
    <2>2. CASE d # c
      BY <1>11, <1>12, <2>2, SameSource DEF files
    <2> QED BY <2>1, <2>2
  <1>16. PrivateInv'
    BY <1>12 DEF IndInv, PrivateInv, WasPrivate, files
  <1>17. TransportInv'
    <2>1. transport' = transport /\ transport[Shared] = <<>>
      BY <1>12 DEF IndInv, TransportInv
    <2>2. ASSUME NEW d \in Clients
          PROVE  /\ client'[d].http \in {d, Shared}
                 /\ ~Built(d)' => transport'[d] = <<>>
                 /\ Built(d)' => Layers(d)' = OwnLayers(d)'
      <3>1. client[d].http \in {d, Shared} /\ (~Built(d) => transport[d] = <<>>) /\ (Built(d) => Layers(d) = OwnLayers(d))
        BY DEF IndInv, TransportInv
      <3>2. CASE d = c
        BY <1>1, <1>4, <1>9, <1>11, <1>12, <2>1, <3>1, <3>2
      <3>3. CASE d # c
        BY <1>11, <1>12, <2>1, <3>1, <3>3 DEF Layers, OwnLayers
      <3> QED BY <3>2, <3>3
    <2> QED BY <2>1, <2>2 DEF TransportInv
  <1>18. SentInv'
    <2>1. \A s \in sent : s.from \in Clients \ {c} /\ Built(s.from)
      BY <1>1 DEF IndInv, SentInv
    <2>2. \A s \in sent : Built(s.from)' /\ client'[s.from] = client[s.from]
      BY <1>11, <1>12, <2>1
    <2> QED BY <1>12, <2>1, <2>2 DEF IndInv, SentInv, calls
  <1> QED BY <1>13, <1>14, <1>15, <1>16, <1>17, <1>18 DEF IndInv

(* A step that neither builds nor changes a client: what its options did   *)
(* and the layers of its requests stay as they are.                        *)
LEMMA SameClients ==
    ASSUME IndInv, UNCHANGED <<opts, client, applied, transport>>,
           \A d \in Clients : (Built(d)' <=> Built(d)) /\ (pc[d] # "new" => pc'[d] # "new")
                              /\ (pc[d] = "new" => pc'[d] = "new")
    PROVE  (\A d \in Clients : OptionsInv(d)') /\ TransportInv'
  <1>1. ASSUME NEW d \in Clients
        PROVE  OptionsInv(d)'
    BY DEF IndInv, OptionsInv, Seen
  <1>2. TransportInv'
    BY DEF IndInv, TransportInv, Layers, OwnLayers
  <1> QED BY <1>1, <1>2

(* The file is opened.                                                     *)
LEMMA OpenFileKeeps ==
    ASSUME IndInv, NEW c \in Clients, OpenFile(c)
    PROVE  IndInv'
  <1>1. pc \in [Clients -> PCs] /\ fd \in [Clients -> Inodes \cup {NoFile}]
    BY DEF IndInv, TypeOK
  <1>2. /\ pc' \in [Clients -> PCs] /\ pc[c] = "open" /\ pc'[c] = "stat"
        /\ fd' \in [Clients -> Inodes \cup {NoFile}] /\ fd'[c] \in Inodes /\ fd'[c] = Named(c)
        /\ \A d \in Clients \ {c} : pc'[d] = pc[d] /\ fd'[d] = fd[d]
    BY <1>1 DEF OpenFile, PCs
  <1>3. /\ UNCHANGED <<opts, env, files, client, applied, transport, calls>>
        /\ \A d \in Clients : (Built(d)' <=> Built(d)) /\ (pc[d] # "new" => pc'[d] # "new")
                              /\ (pc[d] = "new" => pc'[d] = "new")
    BY <1>2 DEF OpenFile, Built
  <1>4. (\A d \in Clients : OptionsInv(d)') /\ TransportInv'
    BY <1>3, SameClients
  <1>5. TypeOK'
    BY <1>2, <1>3 DEF IndInv, TypeOK, files, calls
  <1>6. ASSUME NEW d \in Clients
        PROVE  SourceInv(d)'
    <2>1. CASE d = c
      <3>1. fd'[c] # NoFile /\ ~Built(c)'
        BY <1>2, CredentialsAssumption DEF Built
      <3>2. /\ client'[c].tokenFile \in Names
            /\ client'[c].tokenFileSet \/ (Defaults(c)' /\ client'[c].tokenFile = DefaultPath)
        BY <1>2, <1>3 DEF IndInv, SourceInv, Defaults
      <3>3. fd'[c] \in bound'[client'[c].tokenFile]
        BY <1>2, <1>3, <3>2 DEF IndInv, PrivateInv, Named, files
      <3> QED BY <1>2, <2>1, <3>1, <3>2, <3>3 DEF SourceInv
    <2>2. CASE d # c
      BY <1>2, <1>3, <2>2, SameSource DEF files
    <2> QED BY <2>1, <2>2
  <1>7. PrivateInv'
    BY <1>2, <1>3 DEF IndInv, PrivateInv, WasPrivate, files, Built
  <1>8. SentInv'
    BY <1>3 DEF IndInv, SentInv, calls
  <1> QED BY <1>4, <1>5, <1>6, <1>7, <1>8 DEF IndInv

(* The open file is checked: it is regular and private now.                *)
LEMMA StatKeeps ==
    ASSUME IndInv, NEW c \in Clients, Stat(c)
    PROVE  IndInv'
  <1>1. pc[c] = "stat" /\ ~Built(c) /\ applied[c] = Len(opts[c].options)
    BY DEF Stat, Built, IndInv, OptionsInv
  <1>2. CASE ~(inode[fd[c]].kind = "regular" /\ inode[fd[c]].private)
    <2>1. Fail(c) /\ Beyond /\ UNCHANGED <<applied, fd>>
      BY <1>2 DEF Stat, Beyond
    <2> QED BY <1>1, <2>1, FailKeeps
  <1>3. CASE inode[fd[c]].kind = "regular" /\ inode[fd[c]].private
    <2>1. /\ pc' \in [Clients -> PCs] /\ pc'[c] = "read"
          /\ \A d \in Clients \ {c} : pc'[d] = pc[d]
      BY <1>3 DEF Stat, PCs, IndInv, TypeOK
    <2>2. /\ UNCHANGED <<opts, env, files, client, applied, fd, transport, calls>>
          /\ \A d \in Clients : (Built(d)' <=> Built(d)) /\ (pc[d] # "new" => pc'[d] # "new")
                                /\ (pc[d] = "new" => pc'[d] = "new")
      BY <1>1, <1>3, <2>1 DEF Stat, Built
    <2>3. (\A d \in Clients : OptionsInv(d)') /\ TransportInv'
      BY <2>2, SameClients
    <2>4. TypeOK'
      BY <2>1, <2>2 DEF IndInv, TypeOK, files, calls
    <2>5. ASSUME NEW d \in Clients
          PROVE  SourceInv(d)'
      <3>1. CASE d = c
        BY <1>1, <2>1, <2>2, <3>1 DEF IndInv, SourceInv, Defaults, files
      <3>2. CASE d # c
        BY <2>1, <2>2, <3>2, SameSource DEF files
      <3> QED BY <3>1, <3>2
    <2>6. PrivateInv'
      <3>1. fd[c] \in Inodes
        BY <1>1 DEF IndInv, TypeOK, SourceInv
      <3>2. WasPrivate(fd[c])
        BY <1>3, <3>1 DEF IndInv, PrivateInv, WasPrivate
      <3> QED BY <2>1, <2>2, <3>2 DEF IndInv, PrivateInv, WasPrivate, files, Built
    <2>7. SentInv'
      BY <2>2 DEF IndInv, SentInv, calls
    <2> QED BY <2>3, <2>4, <2>5, <2>6, <2>7 DEF IndInv
  <1> QED BY <1>2, <1>3

(* The file system changes under the clients: the histories remember what  *)
(* was there.                                                              *)
LEMMA FilesKeep ==
    ASSUME IndInv, UNCHANGED <<opts, env, pc, client, applied, fd, transport, calls>>,
           DOMAIN inode' = Inodes, DOMAIN was' = Inodes, DOMAIN names' = Names, DOMAIN bound' = Names,
           \A i \in Inodes : /\ IsFile(inode'[i]) /\ inode'[i].private \in BOOLEAN
                             /\ inode'[i] \in was'[i] /\ was[i] \subseteq was'[i],
           \A n \in Names : names'[n] \in bound'[n] /\ bound[n] \subseteq bound'[n]
    PROVE  IndInv'
  <1>1. \A d \in Clients : (Built(d)' <=> Built(d)) /\ (pc[d] # "new" => pc'[d] # "new")
                           /\ (pc[d] = "new" => pc'[d] = "new")
    BY DEF Built
  <1>2. (\A d \in Clients : OptionsInv(d)') /\ TransportInv'
    BY <1>1, SameClients
  <1>3. TypeOK'
    BY DEF IndInv, TypeOK, calls
  <1>4. \A d \in Clients : fd[d] # NoFile => fd[d] \in Inodes
    BY DEF IndInv, TypeOK
  <1>5. ASSUME NEW d \in Clients
        PROVE  SourceInv(d)'
    <2>1. SourceInv(d)
      BY DEF IndInv
    <2>2. Built(d)' => Sourced(d, client[d].token)'
      <3>1. \A t : fd[d] # NoFile /\ Held(fd[d], t) => Held(fd[d], t)'
        BY <1>4 DEF Held
      <3> QED BY <1>1, <2>1, <3>1 DEF SourceInv, Sourced, Defaults, Held
    <2> QED BY <2>1, <2>2 DEF SourceInv, Defaults
  <1>6. PrivateInv'
    <2>1. \A d \in Clients : fd[d] # NoFile /\ WasPrivate(fd[d]) => WasPrivate(fd[d])'
      BY <1>4 DEF WasPrivate
    <2> QED BY <1>1, <2>1 DEF IndInv, PrivateInv, WasPrivate
  <1>7. SentInv'
    BY <1>1 DEF IndInv, SentInv, calls
  <1> QED BY <1>2, <1>3, <1>5, <1>6, <1>7 DEF IndInv

(* A file whose mode or contents change becomes another file of the same   *)
(* kind, and what it becomes is remembered.                                *)
LEMMA InodeKeeps ==
    ASSUME IndInv, NEW i \in Inodes, NEW g, IsFile(g), g.private \in BOOLEAN, Change,
           inode' = [inode EXCEPT ![i] = g], was' = [was EXCEPT ![i] = @ \cup {inode'[i]}],
           UNCHANGED <<names, bound>>
    PROVE  IndInv'
  <1>1. /\ DOMAIN inode = Inodes /\ DOMAIN was = Inodes /\ DOMAIN names = Names /\ DOMAIN bound = Names
        /\ \A j \in Inodes : IsFile(inode[j]) /\ inode[j].private \in BOOLEAN /\ inode[j] \in was[j]
        /\ \A n \in Names : names[n] \in bound[n]
    BY DEF IndInv, TypeOK, PrivateInv
  <1>2. /\ DOMAIN inode' = Inodes /\ inode'[i] = g /\ (\A j \in Inodes \ {i} : inode'[j] = inode[j])
        /\ DOMAIN was' = Inodes /\ was'[i] = was[i] \cup {g} /\ (\A j \in Inodes \ {i} : was'[j] = was[j])
    BY <1>1
  <1>3. \A j \in Inodes : /\ IsFile(inode'[j]) /\ inode'[j].private \in BOOLEAN
                          /\ inode'[j] \in was'[j] /\ was[j] \subseteq was'[j]
    BY <1>1, <1>2
  <1> QED BY <1>1, <1>2, <1>3, FilesKeep DEF Change

(* Renames, changes of mode and rewrites.                                  *)
LEMMA ChangeKeeps ==
    ASSUME IndInv,
           (\E name \in Names : Rebind(name)) \/ (\E i \in Inodes : Chmod(i) \/ Rewrite(i))
    PROVE  IndInv'
  <1>1. /\ DOMAIN inode = Inodes /\ DOMAIN was = Inodes /\ DOMAIN names = Names /\ DOMAIN bound = Names
        /\ \A i \in Inodes : IsFile(inode[i]) /\ inode[i].private \in BOOLEAN /\ inode[i] \in was[i]
        /\ \A n \in Names : names[n] \in bound[n]
    BY DEF IndInv, TypeOK, PrivateInv
  <1>2. ASSUME NEW name \in Names, Rebind(name)
        PROVE  IndInv'
    <2>1. PICK to : names' = [names EXCEPT ![name] = to] /\ bound' = [bound EXCEPT ![name] = @ \cup {to}]
      BY <1>2 DEF Rebind
    <2>2. Change /\ inode' = inode /\ was' = was
      BY <1>2 DEF Rebind
    <2>3. /\ DOMAIN names' = Names /\ DOMAIN bound' = Names
          /\ \A n \in Names : names'[n] \in bound'[n] /\ bound[n] \subseteq bound'[n]
      BY <1>1, <2>1
    <2> QED BY <1>1, <2>2, <2>3, FilesKeep DEF Change
  <1>3. ASSUME NEW i \in Inodes, Chmod(i)
        PROVE  IndInv'
    <2>1. PICK f : f = inode[i]
      OBVIOUS
    <2>2. PICK g : g = [f EXCEPT !.private = ~f.private]
      OBVIOUS
    <2>3. /\ inode' = [inode EXCEPT ![i] = g] /\ Change /\ UNCHANGED <<names, bound>>
          /\ was' = [was EXCEPT ![i] = @ \cup {inode'[i]}]
      BY <1>3, <2>1, <2>2 DEF Chmod
    <2>4. IsFile(f) /\ f.private \in BOOLEAN
      BY <1>1, <2>1
    <2>5. g = [kind |-> f.kind, private |-> ~f.private, body |-> f.body]
      BY <2>2, <2>4 DEF IsFile
    <2>6. IsFile(g)
      BY <2>5 DEF IsFile
    <2>7. g.private = ~f.private
      BY <2>5
    <2>8. g.private \in BOOLEAN
      BY <2>7
    <2> QED BY <2>3, <2>6, <2>8, InodeKeeps
  <1>4. ASSUME NEW i \in Inodes, Rewrite(i)
        PROVE  IndInv'
    <2>1. PICK f : f = inode[i]
      OBVIOUS
    <2>2. PICK body \in Bodies : inode' = [inode EXCEPT ![i].body = body]
      BY <1>4 DEF Rewrite
    <2>3. PICK g : g = [f EXCEPT !.body = body]
      OBVIOUS
    <2>4. /\ inode' = [inode EXCEPT ![i] = g] /\ Change /\ UNCHANGED <<names, bound>>
          /\ was' = [was EXCEPT ![i] = @ \cup {inode'[i]}]
      BY <1>4, <2>1, <2>2, <2>3 DEF Rewrite
    <2>5. IsFile(f) /\ f.private \in BOOLEAN
      BY <1>1, <2>1
    <2>6. g = [kind |-> f.kind, private |-> f.private, body |-> body]
      BY <2>3, <2>5 DEF IsFile
    <2>7. IsFile(g) /\ g.private = f.private
      BY <2>6 DEF IsFile
    <2> QED BY <2>4, <2>5, <2>7, InodeKeeps
  <1> QED BY <1>2, <1>3, <1>4

(* The steps of a built client's request: they change neither a client     *)
(* nor a file, and its call keeps going to some origin.                    *)
Requesting(c) ==
    /\ UNCHANGED <<opts, env, files, client, applied, fd, transport>>
    /\ pc' \in [Clients -> PCs]
    /\ Built(c) /\ Built(c)'
    /\ \A d \in Clients \ {c} : pc'[d] = pc[d]
    /\ DOMAIN url' = Clients
    /\ \A d \in Clients : IsOrigin(url'[d])

(* A request that goes on or ends leaves everything but what was sent.     *)
LEMMA RequestingKeeps ==
    ASSUME IndInv, NEW c \in Clients, Requesting(c), SentInv'
    PROVE  IndInv'
  <1>1. \A d \in Clients : Built(d)' <=> Built(d)
    BY DEF Requesting, Built
  <1>2. \A d \in Clients : pc[d] \in {"new", "open", "stat", "read"} \/ pc'[d] \in {"new", "open", "stat", "read"} => pc'[d] = pc[d]
    BY DEF Requesting, Built
  <1>3. \A d \in Clients : (Built(d)' <=> Built(d)) /\ (pc[d] # "new" => pc'[d] # "new")
                           /\ (pc[d] = "new" => pc'[d] = "new")
    BY <1>1, <1>2
  <1>4. UNCHANGED <<opts, client, applied, transport>>
    BY DEF Requesting
  <1>5. (\A d \in Clients : OptionsInv(d)') /\ TransportInv'
    BY <1>3, <1>4, SameClients
  <1>6. TypeOK'
    BY DEF IndInv, TypeOK, Requesting, files
  <1>7. ASSUME NEW d \in Clients
        PROVE  SourceInv(d)'
    <2>1. SourceInv(d) /\ UNCHANGED <<env, client, fd, bound, was>>
      BY DEF IndInv, Requesting, files
    <2>2. Sourced(d, client[d].token) => Sourced(d, client[d].token)'
      BY <2>1 DEF Sourced, Defaults, Held
    <2> QED BY <1>1, <1>2, <2>1, <2>2 DEF SourceInv, Defaults
  <1>8. PrivateInv'
    BY <1>1, <1>2 DEF IndInv, PrivateInv, WasPrivate, Requesting, files
  <1> QED BY <1>5, <1>6, <1>7, <1>8 DEF IndInv

(* A request starts, is redirected, or is answered.                        *)
LEMMA RequestStep ==
    ASSUME IndInv, NEW c \in Clients, Request(c) \/ Redirect(c) \/ Respond(c)
    PROVE  Requesting(c) /\ sent' = sent
  <1>1. pc \in [Clients -> PCs] /\ DOMAIN url = Clients /\ \A d \in Clients : IsOrigin(url[d]) /\ IsOrigin(client[d].origin)
    BY DEF IndInv, TypeOK
  <1>2. /\ UNCHANGED <<opts, env, files, client, applied, fd, transport>> /\ sent' = sent
        /\ Built(c)
    BY DEF Request, Redirect, Respond, calls, Built
  <1>3. pc' = [pc EXCEPT ![c] = "trip"] \/ pc' = [pc EXCEPT ![c] = "ready"]
    BY DEF Request, Redirect, Respond
  <1>4. pc' \in [Clients -> PCs] /\ Built(c)' /\ \A d \in Clients \ {c} : pc'[d] = pc[d]
    BY <1>1, <1>3 DEF PCs, Built
  <1>5. url' = url \/ \E o : IsOrigin(o) /\ url' = [url EXCEPT ![c] = o]
    <2>1. CASE Request(c)
      BY <1>1, <2>1 DEF Request
    <2>2. CASE Redirect(c)
      BY <2>2, CredentialsAssumption DEF Redirect
    <2>3. CASE Respond(c)
      BY <2>3 DEF Respond, calls
    <2> QED BY <2>1, <2>2, <2>3
  <1>6. DOMAIN url' = Clients /\ \A d \in Clients : IsOrigin(url'[d])
    BY <1>1, <1>5
  <1> QED BY <1>2, <1>4, <1>6 DEF Requesting

(* One round trip: the request is refused at a foreign origin, or sent     *)
(* with the client's own token.                                            *)
LEMMA RoundTripKeeps ==
    ASSUME IndInv, NEW c \in Clients, RoundTrip(c)
    PROVE  IndInv'
  <1>1. pc \in [Clients -> PCs] /\ DOMAIN url = Clients /\ \A d \in Clients : IsOrigin(url[d]) /\ IsOrigin(client[d].origin)
    BY DEF IndInv, TypeOK
  <1>2. UNCHANGED <<opts, env, files, client, applied, fd, transport, url>> /\ Built(c)
    BY DEF RoundTrip, Built
  <1>3. pc' = [pc EXCEPT ![c] = "wait"] \/ pc' = [pc EXCEPT ![c] = "ready"]
    BY DEF RoundTrip
  <1>4. pc' \in [Clients -> PCs] /\ Built(c)' /\ \A d \in Clients \ {c} : pc'[d] = pc[d]
    BY <1>1, <1>3 DEF PCs, Built
  <1>5. Requesting(c)
    BY <1>1, <1>2, <1>4 DEF Requesting
  <1>6. \A d \in Clients : Built(d)' <=> Built(d)
    BY <1>2, <1>4 DEF Built
  <1>7. \A s \in sent : /\ s.from \in Clients /\ Built(s.from)' /\ s.token = client'[s.from].token
                        /\ (client'[s.from].token # Anonymous => s.to = client'[s.from].origin)
    BY <1>2, <1>6 DEF IndInv, SentInv
  <1>8. CASE ~(\A i \in 1..Len(Layers(c)) : SameOrigin(Layers(c)[i], url[c]))
    <2>1. sent' = sent
      BY <1>8 DEF RoundTrip
    <2>2. SentInv'
      BY <1>7, <2>1 DEF SentInv
    <2> QED BY <1>5, <2>2, RequestingKeeps
  <1>9. CASE \A i \in 1..Len(Layers(c)) : SameOrigin(Layers(c)[i], url[c])
    <2>1. PICK t : t = (IF Layers(c) = <<>> THEN Anonymous ELSE Last(Layers(c)).token)
      OBVIOUS
    <2>2. PICK s0 : s0 = [from |-> c, to |-> url[c], token |-> t]
      OBVIOUS
    <2>3. sent' = sent \cup {s0}
      BY <1>9, <2>1, <2>2 DEF RoundTrip
    <2>4. Layers(c) = OwnLayers(c)
      BY <1>2 DEF IndInv, TransportInv
    <2>5. t = client[c].token /\ (client[c].token # Anonymous => url[c] = client[c].origin)
      <3>1. CASE client[c].token = Anonymous
        BY <2>1, <2>4, <3>1 DEF OwnLayers
      <3>2. CASE client[c].token # Anonymous
        <4>1. PICK layer : layer = [token |-> client[c].token, origin |-> client[c].origin]
          OBVIOUS
        <4>2. Layers(c) = <<layer>>
          BY <2>4, <3>2, <4>1 DEF OwnLayers
        <4>3. Len(Layers(c)) = 1 /\ Layers(c)[1] = layer /\ Layers(c) # <<>>
          BY <4>2
        <4>4. Last(Layers(c)) = layer
          BY <4>3 DEF Last
        <4>5. SameOrigin(layer, url[c])
          BY <1>9, <4>3
        <4>6. url[c].scheme = client[c].origin.scheme /\ url[c].host = client[c].origin.host
          BY <4>1, <4>5 DEF SameOrigin
        <4>7. url[c] = client[c].origin
          BY <1>1, <4>6 DEF IsOrigin
        <4> QED BY <2>1, <4>1, <4>3, <4>4, <4>7
      <3> QED BY <3>1, <3>2
    <2>6. s0.from = c /\ s0.to = url[c] /\ s0.token = t
      BY <2>2
    <2>7. /\ s0.from \in Clients /\ Built(s0.from)' /\ s0.token = client'[s0.from].token
          /\ (client'[s0.from].token # Anonymous => s0.to = client'[s0.from].origin)
      BY <1>2, <1>4, <2>5, <2>6
    <2>8. SentInv'
      BY <1>7, <2>3, <2>7 DEF SentInv
    <2> QED BY <1>5, <2>8, RequestingKeeps
  <1> QED BY <1>8, <1>9

-----------------------------------------------------------------------------
(* The invariant holds. *)

(* It holds before any client is built.                                    *)
LEMMA InitInv == Init => IndInv
  <1> SUFFICES ASSUME Init
               PROVE  IndInv
    OBVIOUS
  <1>1. PICK f \in InitialFiles : names = f.names /\ inode = f.inode
    BY DEF Init
  <1>2. \A c \in Clients : client[c] = Fresh(c) /\ pc[c] = "new" /\ applied[c] = 0 /\ fd[c] = NoFile /\ ~Built(c)
    BY DEF Init, Built
  <1>3. \A c \in Clients : IsClient(Fresh(c)) /\ Fresh(c).origin = opts[c].listen /\ Fresh(c).http = c /\ ~Fresh(c).tokenSet /\ ~Fresh(c).tokenFileSet
    BY DEF Fresh, IsClient
  <1>4. opts \in Setups
    BY DEF Init
  <1>5. /\ \A c \in Clients : IsOrigin(opts[c].listen) /\ Len(opts[c].options) \in Nat
        /\ DOMAIN names = Names /\ DOMAIN inode = Inodes
        /\ \A i \in Inodes : IsFile(inode[i]) /\ inode[i].private \in BOOLEAN
    BY <1>1, <1>4, CredentialsAssumption
  <1>6. TypeOK
    <2>1. pc \in [Clients -> PCs] /\ applied \in [Clients -> Nat] /\ fd \in [Clients -> Inodes \cup {NoFile}]
      BY DEF Init, PCs
    <2>2. DOMAIN bound = Names /\ DOMAIN was = Inodes /\ DOMAIN client = Clients /\ DOMAIN transport = Clients \cup {Shared} /\ DOMAIN url = Clients
      BY DEF Init
    <2>3. \A c \in Clients : url[c] = opts[c].listen
      BY DEF Init
    <2> QED BY <1>2, <1>3, <1>4, <1>5, <2>1, <2>2, <2>3 DEF TypeOK
  <1>7. ASSUME NEW c \in Clients
        PROVE  OptionsInv(c) /\ SourceInv(c)
    <2>1. ~Seen(c, "file", 0) /\ ~Seen(c, "token", 0)
      BY DEF Seen
    <2>2. OptionsInv(c)
      BY <1>2, <1>3, <1>5, <2>1 DEF OptionsInv
    <2>3. SourceInv(c)
      BY <1>2 DEF SourceInv
    <2> QED BY <2>2, <2>3
  <1>8. PrivateInv
    BY <1>2 DEF Init, PrivateInv
  <1>9. TransportInv
    BY <1>2, <1>3 DEF Init, TransportInv
  <1>10. SentInv
    BY DEF Init, SentInv
  <1> QED BY <1>6, <1>7, <1>8, <1>9, <1>10 DEF IndInv

(* Every step preserves it.                                                *)
LEMMA NextInv == IndInv /\ [Next]_vars => IndInv'
  <1> SUFFICES ASSUME IndInv, [Next]_vars
               PROVE  IndInv'
    OBVIOUS
  <1>1. CASE UNCHANGED vars
    <2>1. UNCHANGED <<opts, env, pc, client, applied, fd, transport, calls, inode, names, bound, was>>
      BY <1>1 DEF vars, files
    <2>2. /\ DOMAIN inode' = Inodes /\ DOMAIN was' = Inodes /\ DOMAIN names' = Names /\ DOMAIN bound' = Names
          /\ \A i \in Inodes : /\ IsFile(inode'[i]) /\ inode'[i].private \in BOOLEAN
                               /\ inode'[i] \in was'[i] /\ was[i] \subseteq was'[i]
          /\ \A n \in Names : names'[n] \in bound'[n] /\ bound[n] \subseteq bound'[n]
      BY <2>1 DEF IndInv, TypeOK, PrivateInv
    <2> QED BY <2>1, <2>2, FilesKeep
  <1>2. ASSUME NEW c \in Clients, Construct(c)
        PROVE  IndInv'
    BY <1>2, ApplyOptionKeeps, NewKeeps, OpenFileKeeps, OpenFailsKeeps, StatKeeps, ReadAllKeeps DEF Construct
  <1>3. ASSUME NEW c \in Clients, Request(c) \/ Redirect(c) \/ Respond(c)
        PROVE  IndInv'
    <2>1. Requesting(c) /\ sent' = sent
      BY <1>3, RequestStep
    <2>2. UNCHANGED client /\ \A d \in Clients : Built(d) => Built(d)'
      BY <2>1 DEF Requesting, Built
    <2>3. SentInv'
      BY <2>1, <2>2 DEF IndInv, SentInv
    <2> QED BY <2>1, <2>3, RequestingKeeps
  <1>4. ASSUME NEW c \in Clients, RoundTrip(c)
        PROVE  IndInv'
    BY <1>4, RoundTripKeeps
  <1>5. CASE (\E name \in Names : Rebind(name)) \/ (\E i \in Inodes : Chmod(i) \/ Rewrite(i))
    BY <1>5, ChangeKeeps
  <1> QED BY <1>1, <1>2, <1>3, <1>4, <1>5 DEF Next

(* The inductive invariant, for any clients, options and files.            *)
THEOREM Invariance == Spec => []IndInv
  <1>1. Init => IndInv BY InitInv
  <1>2. IndInv /\ [Next]_vars => IndInv' BY NextInv
  <1> QED BY <1>1, <1>2, PTL DEF Spec

(* The variables keep their types.                                         *)
THEOREM TypeCorrect == Spec => []TypeOK
  <1>1. IndInv => TypeOK BY DEF IndInv
  <1> QED BY <1>1, Invariance, PTL

(* A client built with WithTokenFile, wherever it stands in the option     *)
(* list and whatever else is given, carries a token that was read from the *)
(* file it opened at a path it was given; one with another source carries  *)
(* that source's and opened none (resolveToken).                           *)
THEOREM ExplicitSourceOnly == Spec => []NeverFallsBack
  <1>1. IndInv => NeverFallsBack
    <2> SUFFICES ASSUME IndInv, NEW c \in Clients, Built(c)
                 PROVE  OwnSource(c)
      BY DEF NeverFallsBack
    <2> DEFINE k == client[c]
    <2>1. applied[c] = Len(opts[c].options)
      BY DEF IndInv, OptionsInv, Built
    <2>2. /\ k.tokenFileSet <=> Given(c, "file")
          /\ k.tokenSet <=> Given(c, "token")
          /\ k.tokenFileSet => GivenOption(c, WithTokenFile(k.tokenFile))
          /\ k.tokenSet /\ ~k.tokenFileSet => GivenOption(c, WithToken(k.token))
      BY <2>1 DEF IndInv, OptionsInv, Seen, Given, GivenOption
    <2>3. /\ Sourced(c, k.token)
          /\ fd[c] # NoFile => fd[c] \in bound[k.tokenFile]
      BY DEF IndInv, SourceInv
    <2>4. fd[c] # NoFile /\ Held(fd[c], k.token) => ReadFrom(c)
      BY <2>3 DEF Held, ReadFrom
    <2>5. CASE k.tokenFileSet
      BY <2>2, <2>3, <2>4, <2>5 DEF Sourced, OwnSource
    <2>6. CASE ~k.tokenFileSet /\ fd[c] # NoFile
      BY <2>2, <2>3, <2>4, <2>6 DEF Sourced, OwnSource, Defaults
    <2>7. CASE ~k.tokenFileSet /\ fd[c] = NoFile
      BY <2>2, <2>3, <2>7 DEF Sourced, OwnSource
    <2> QED BY <2>5, <2>6, <2>7
  <1> QED BY <1>1, Invariance, PTL

(* A client that read a token file has read a regular one, and one that    *)
(* was private, whoever renamed, chmodded or rewrote it meanwhile          *)
(* (readTokenFile checks the file it opened, not its path).                *)
THEOREM PrivateFilesOnly == Spec => []ReadsOnlyPrivate
  <1>1. IndInv => ReadsOnlyPrivate
    BY DEF IndInv, PrivateInv, WasPrivate, ReadsOnlyPrivate
  <1> QED BY <1>1, Invariance, PTL

(* Every request carries the token of the client that makes it, though     *)
(* clients are built around one http.Client (configureCredentials).        *)
THEOREM OwnTokenOnly == Spec => []OwnToken
  <1>1. IndInv => OwnToken
    BY DEF IndInv, SentInv, OwnToken
  <1> QED BY <1>1, Invariance, PTL

(* No chain of redirects takes a request of an authenticated client to     *)
(* another origin (credentialTransport.RoundTrip).                         *)
THEOREM HomeOnly == Spec => []StaysHome
  <1>1. IndInv => StaysHome
    BY DEF IndInv, SentInv, StaysHome
  <1> QED BY <1>1, Invariance, PTL

(* What a client is made of and the layers its requests go through.        *)
Stable(c) == Built(c)' /\ client'[c] = client[c] /\ Layers(c)' = Layers(c)

(* A step of New leaves a client that is built alone, also one around the  *)
(* same http.Client.                                                       *)
LEMMA ConstructStable ==
    ASSUME IndInv, NEW c \in Clients, Built(c), NEW d \in Clients, Construct(d)
    PROVE  Stable(c)
  <1>1. ~Built(d) /\ d # c
    BY DEF Construct, ApplyOption, New, OpenFile, OpenFails, Stat, ReadAll, Built
  <1>2. client[c].http \in {c, Shared} /\ DOMAIN client = Clients /\ pc \in [Clients -> PCs]
    BY DEF IndInv, TransportInv, TypeOK
  <1>3. ASSUME NEW q, pc' = [pc EXCEPT ![d] = q]
        PROVE  Built(c)'
    BY <1>1, <1>2, <1>3 DEF Built
  <1>4. ASSUME Elsewhere(d)
        PROVE  client'[c] = client[c] /\ Layers(c)' = Layers(c)
    BY <1>1, <1>2, <1>4 DEF Elsewhere, Layers
  <1>5. ASSUME UNCHANGED <<client, transport>>
        PROVE  client'[c] = client[c] /\ Layers(c)' = Layers(c)
    BY <1>5 DEF Layers
  <1>6. ASSUME Fail(d) \/ Opens(d) \/ \E t : Ready(d, t)
        PROVE  Stable(c)
    BY <1>3, <1>4, <1>5, <1>6 DEF Fail, Opens, Ready, Stable
  <1>7. CASE ApplyOption(d)
    <2>1. pc' = pc /\ transport' = transport
      BY <1>7 DEF ApplyOption
    <2>2. client'[c] = client[c]
      BY <1>1, <1>2, <1>7 DEF ApplyOption
    <2> QED BY <2>1, <2>2 DEF Stable, Layers, Built
  <1>8. CASE New(d)
    <2>1. resolveToken(d, client[d])
      BY <1>8 DEF New
    <2> QED BY <1>1, <1>6, <2>1, ResolveStep
  <1>9. CASE OpenFile(d)
    BY <1>3, <1>5, <1>9 DEF OpenFile, Stable
  <1>10. CASE OpenFails(d) \/ ReadAll(d)
    <2>1. Fail(d) \/ \E t : Configure(d, client[d], t)
      BY <1>10 DEF OpenFails, ReadAll
    <2> QED BY <1>1, <1>6, <2>1, ConfigureStep
  <1>11. CASE Stat(d)
    BY <1>3, <1>5, <1>6, <1>11 DEF Stat, Stable
  <1> QED BY <1>7, <1>8, <1>9, <1>10, <1>11 DEF Construct

(* "Do not mutate a caller-owned client": the http.Client that the caller  *)
(* passes never gets a layer, and once New has returned a client no later  *)
(* New, request or file changes its token, its origin or its transport.    *)
THEOREM CallersClientUntouched ==
    Spec => /\ [](transport[Shared] = <<>>)
            /\ [][\A c \in Clients : Built(c) => Stable(c)]_vars
  <1>1. IndInv => transport[Shared] = <<>>
    BY DEF IndInv, TransportInv
  <1>2. IndInv /\ [Next]_vars => [\A c \in Clients : Built(c) => Stable(c)]_vars
    <2> SUFFICES ASSUME IndInv, Next, NEW c \in Clients, Built(c)
                 PROVE  Stable(c)
      OBVIOUS
    <2>1. ASSUME NEW d \in Clients, Construct(d)
          PROVE  Stable(c)
      BY <2>1, ConstructStable
    <2>2. ASSUME NEW d \in Clients, Request(d) \/ RoundTrip(d) \/ Redirect(d) \/ Respond(d)
          PROVE  Stable(c)
      <3>1. UNCHANGED <<client, transport>>
        BY <2>2 DEF Request, RoundTrip, Redirect, Respond
      <3>2. \E q \in {"trip", "ready", "wait"} : pc' = [pc EXCEPT ![d] = q]
        BY <2>2 DEF Request, RoundTrip, Redirect, Respond
      <3>3. Built(c)'
        BY <3>2 DEF Built, IndInv, TypeOK
      <3> QED BY <3>1, <3>3 DEF Stable, Layers
    <2>3. CASE (\E name \in Names : Rebind(name)) \/ (\E i \in Inodes : Chmod(i) \/ Rewrite(i))
      <3>1. Change
        BY <2>3 DEF Rebind, Chmod, Rewrite
      <3> QED BY <3>1 DEF Change, Stable, Layers, Built
    <2> QED BY <2>1, <2>2, <2>3 DEF Next
  <1> QED BY <1>1, <1>2, Invariance, PTL DEF Spec
=============================================================================
