---------------------------- MODULE ServerStartup ----------------------------
(* How server processes of one bot start, stop and follow each other       *)
(* (serverapp/app.go Run, processlock, adminserver/listener_unix.go,       *)
(* server/tls.go, serverapp/runtime_files.go).  A start takes the lock,    *)
(* makes the files it lacks and opens its listeners; what it took it gives *)
(* back in reverse order.  Any step may fail, and the process may be       *)
(* killed between any two: the kernel then frees its lock, its ports and   *)
(* its listening socket, and the files and the socket's path stay.         *)
EXTENDS FiniteSets, TLC

CONSTANTS
    Servers,       \* processes, each started any number of times
    Inodes, Pairs, \* sockets, and key pairs, to tell one from another
    Addresses, NoServer, NoInode, NoPair, Unwhole

ASSUME StartupAssumption ==
    NoServer \notin Servers /\ NoInode \notin Inodes /\ NoPair \notin Pairs /\ Unwhole \notin Pairs

VARIABLES
    where,         \* server -> the step of Run it takes next, "down" when there is no process
    lockHolder,
    address,       \* server -> its configured addresses, which may have changed since
    ports,         \* "relay" and "web" at an address -> the server that listens there
    socketPath,    \* what admin.sock leads to
    listening,     \* socket -> the server that listens at it
    private,       \* the sockets with mode 0600
    seen,          \* server -> the socket prepareSocketPath found
    key, cert,     \* relay-key.pem and relay-cert.pem
    made,          \* server -> the pair it generated
    helpFile, bootstrapFile,
    authStored,    \* auth.json exists
    unwritten,     \* servers whose bootstrap file could not be written
    blocked        \* servers whose start was stopped by what they found, and by what

startupVars == <<where, lockHolder, address, ports, socketPath, listening, private, seen, key,
                 cert, made, helpFile, bootstrapFile, authStored, unwritten, blocked>>

PathParts == <<socketPath, listening, private, seen>>
PairParts == <<key, cert, made>>
TextParts == <<helpFile, bootstrapFile, authStored, unwritten>>
Down == [s \in Servers |-> "down"]
PortNames == {"relay", "web"}
Free == [p \in PortNames |-> [a \in Addresses |-> NoServer]]

StartupInit ==
    /\ where = Down /\ lockHolder = NoServer /\ address \in [Servers -> Addresses] /\ ports = Free
    /\ socketPath = NoInode /\ listening = [i \in Inodes |-> NoServer] /\ private = {}
    /\ seen = [s \in Servers |-> NoInode]
    /\ key = NoPair /\ cert = NoPair /\ made = [s \in Servers |-> NoPair]
    /\ helpFile = "absent" /\ bootstrapFile = "absent" /\ authStored = FALSE /\ unwritten = {}
    /\ blocked = [s \in Servers |-> "no"]

Moves(s, from, to) == where[s] = from /\ where' = [where EXCEPT ![s] = to]

(* Its own error, after which the deferred calls run.                      *)
StartRefused(s, from, why) ==
    /\ Moves(s, from, "closing") /\ blocked' = [blocked EXCEPT ![s] = why]

--------------------------------------------------------------------------
(* The lock, and the files.                                                *)
Acquire(s) ==
    /\ lockHolder = NoServer /\ Moves(s, "down", "help")
    /\ lockHolder' = s /\ blocked' = [blocked EXCEPT ![s] = "no"]
    /\ UNCHANGED <<ports>> /\ UNCHANGED PathParts /\ UNCHANGED PairParts /\ UNCHANGED TextParts

OnlyAt == UNCHANGED <<lockHolder, ports, blocked>> /\ UNCHANGED PathParts

(* createPrivateFileOnce: made empty, then written.                        *)
EnsureDefaultHelpFile(s) ==
    /\ \/ helpFile = "absent" /\ helpFile' = "empty" /\ Moves(s, "help", "help written")
       \/ helpFile # "absent" /\ UNCHANGED helpFile /\ Moves(s, "help", "auth")
       \/ helpFile' = "whole" /\ Moves(s, "help written", "auth")
    /\ UNCHANGED <<bootstrapFile, authStored, unwritten>> /\ UNCHANGED PairParts /\ OnlyAt

LoadAdministrators(s) ==
    /\ Moves(s, "auth", IF authStored THEN "tls" ELSE "publish") /\ authStored' = TRUE
    /\ unwritten' = unwritten \ {s}
    /\ UNCHANGED <<helpFile, bootstrapFile>> /\ UNCHANGED PairParts /\ OnlyAt

(* The credentials are printed even if their file was not written.         *)
PublishAdminBootstrap(s) ==
    /\ \/ /\ bootstrapFile = "absent" /\ Moves(s, "publish", "publish written")
          /\ bootstrapFile' = "empty" /\ UNCHANGED unwritten
       \/ /\ bootstrapFile # "absent" /\ Moves(s, "publish", "print")
          /\ UNCHANGED <<bootstrapFile, unwritten>>
       \/ /\ Moves(s, "publish written", "print") /\ bootstrapFile' = "whole" /\ UNCHANGED unwritten
       \/ /\ where[s] \in {"publish", "publish written"} /\ where' = [where EXCEPT ![s] = "print"]
          /\ unwritten' = unwritten \cup {s} /\ UNCHANGED bootstrapFile
       \/ /\ Moves(s, "print", IF s \in unwritten THEN "closing" ELSE "tls")
          /\ UNCHANGED <<bootstrapFile, unwritten>>
    /\ UNCHANGED <<helpFile, authStored>> /\ UNCHANGED PairParts /\ OnlyAt

(* EnsureTLS with its own certificate.  A file is written beside the path  *)
(* and renamed over it.                                                    *)
WrittenInPlace(pair) == {Unwhole, pair}
WritePrivateFileAtomic(pair) == {pair}

GenerateCertificate(s) ==
    /\ NoPair \in {key, cert} /\ Moves(s, "tls", "tls key")
    /\ \E pair \in Pairs \ {key, cert} : made' = [made EXCEPT ![s] = pair]
    /\ UNCHANGED <<key, cert>> /\ UNCHANGED TextParts /\ OnlyAt

WriteKey(s) ==
    /\ key' \in WritePrivateFileAtomic(made[s])
    /\ Moves(s, "tls key", IF key' = Unwhole THEN "tls key" ELSE "tls cert")
    /\ UNCHANGED <<cert, made>> /\ UNCHANGED TextParts /\ OnlyAt

WriteCert(s) ==
    /\ cert' \in WritePrivateFileAtomic(made[s])
    /\ Moves(s, "tls cert", IF cert' = Unwhole THEN "tls cert" ELSE "load")
    /\ UNCHANGED <<key, made>> /\ UNCHANGED TextParts /\ OnlyAt

LoadTLSCertificate(s) ==
    /\ NoPair \notin {key, cert} /\ where[s] \in {"tls", "load"}
    /\ IF key = cert /\ key # Unwhole
       THEN where' = [where EXCEPT ![s] = "services"] /\ UNCHANGED blocked
       ELSE StartRefused(s, where[s], "certificate")
    /\ UNCHANGED <<lockHolder, ports>> /\ UNCHANGED PathParts /\ UNCHANGED PairParts
    /\ UNCHANGED TextParts

(* The stores are loaded, the client, the catalog, the hub and the router  *)
(* made.                                                                   *)
CreateServices(s) ==
    /\ Moves(s, "services", "relay") /\ UNCHANGED TextParts /\ UNCHANGED PairParts /\ OnlyAt

--------------------------------------------------------------------------
(* The listeners: the relay's, the admin socket, the web console's.        *)
FilesKept == UNCHANGED lockHolder /\ UNCHANGED PairParts /\ UNCHANGED TextParts

ListenAt(s, port, next) ==
    /\ IF ports[port][address[s]] = NoServer
       THEN /\ Moves(s, port, next) /\ UNCHANGED blocked
            /\ ports' = [ports EXCEPT ![port][address[s]] = s]
       ELSE StartRefused(s, port, "port") /\ UNCHANGED ports
    /\ UNCHANGED PathParts /\ FilesKept

Live(i) == i # NoInode /\ listening[i] # NoServer

(* prepareSocketPath                                                       *)
LookAtPath(s) ==
    /\ Moves(s, "look", IF socketPath = NoInode THEN "bind" ELSE "probe")
    /\ seen' = [seen EXCEPT ![s] = socketPath]
    /\ UNCHANGED <<ports, blocked, socketPath, listening, private>> /\ FilesKept

ProbeSocket(s) ==
    /\ IF Live(socketPath) THEN StartRefused(s, "probe", "running")
       ELSE Moves(s, "probe", "recheck") /\ UNCHANGED blocked
    /\ UNCHANGED ports /\ UNCHANGED PathParts /\ FilesKept

RecheckPath(s) ==
    /\ IF socketPath \notin {NoInode, seen[s]} THEN StartRefused(s, "recheck", "changed")
       ELSE /\ Moves(s, "recheck", IF socketPath = NoInode THEN "bind" ELSE "remove")
            /\ UNCHANGED blocked
    /\ UNCHANGED ports /\ UNCHANGED PathParts /\ FilesKept

RemoveStale(s) ==
    /\ Moves(s, "remove", "bind") /\ socketPath' = NoInode
    /\ UNCHANGED <<ports, blocked, listening, private, seen>> /\ FilesKept

(* A number that a removed socket had may be given again.                  *)
BindSocket(s) ==
    /\ IF socketPath # NoInode
       THEN StartRefused(s, "bind", "bound") /\ UNCHANGED PathParts
       ELSE /\ Moves(s, "bind", "secure") /\ UNCHANGED <<seen, blocked>>
            /\ \E i \in Inodes :
                /\ ~Live(i) /\ socketPath' = i
                /\ listening' = [listening EXCEPT ![i] = s] /\ private' = private \ {i}
    /\ UNCHANGED ports /\ FilesKept

Own(s) == {i \in Inodes : listening[i] = s}

(* The mode is set by path, and the path is looked at again.               *)
SecureSocket(s) ==
    /\ IF socketPath \in Own(s) THEN Moves(s, "secure", "web") /\ UNCHANGED blocked
       ELSE StartRefused(s, "secure", "changed")
    /\ private' = private \cup ({socketPath} \ {NoInode})
    /\ \E i \in Own(s) : seen' = [seen EXCEPT ![s] = i]
    /\ UNCHANGED <<ports, socketPath, listening>> /\ FilesKept

(* The two administrations are put together, and the components run.       *)
AssembleServer(s) ==
    /\ Moves(s, "assemble", "serving")
    /\ UNCHANGED <<ports, blocked>> /\ UNCHANGED PathParts /\ FilesKept

--------------------------------------------------------------------------
(* The end of Run: asked for while it serves, or for an error of any step. *)
Stopping == {"closing", "compare", "unlink", "ports", "unlock"}

Ends(s) ==
    /\ where[s] \notin Stopping \cup {"down"} /\ where' = [where EXCEPT ![s] = "closing"]
    /\ UNCHANGED <<ports, blocked>> /\ UNCHANGED PathParts /\ FilesKept

(* What the step gives back, the last of them the lock.                    *)
GivesLockFirst(step) == step = "closing"
GivesLock(step) == step = "unlock"

GiveBack(s, step, next) ==
    /\ Moves(s, step, next) /\ UNCHANGED <<blocked, key, cert>> /\ UNCHANGED TextParts
    /\ lockHolder' = IF GivesLock(step) /\ lockHolder = s THEN NoServer ELSE lockHolder

Silenced(s) == [i \in Inodes |-> IF listening[i] = s THEN NoServer ELSE listening[i]]

(* Close of the admin socket, once it listened: the path is removed if it  *)
(* still leads to this socket.                                             *)
CloseListener(s) ==
    /\ GiveBack(s, "closing", IF Own(s) = {} THEN "ports" ELSE "compare")
    /\ listening' = Silenced(s) /\ UNCHANGED <<ports, socketPath, private, seen, made>>

CompareSocket(s) ==
    /\ GiveBack(s, "compare", IF socketPath = seen[s] THEN "unlink" ELSE "ports")
    /\ UNCHANGED <<ports, made>> /\ UNCHANGED PathParts

UnlinkSocket(s) ==
    /\ GiveBack(s, "unlink", "ports") /\ socketPath' = NoInode
    /\ UNCHANGED <<ports, listening, private, seen, made>>

Unbound(s) ==
    [p \in PortNames |-> [a \in Addresses |-> IF ports[p][a] = s THEN NoServer ELSE ports[p][a]]]

ClosePorts(s) ==
    /\ GiveBack(s, "ports", "unlock") /\ ports' = Unbound(s)
    /\ UNCHANGED made /\ UNCHANGED PathParts

(* Its memory goes with the process.                                       *)
Forgets(s) == seen' = [seen EXCEPT ![s] = NoInode] /\ made' = [made EXCEPT ![s] = NoPair]

ReleaseLock(s) ==
    /\ GiveBack(s, "unlock", "down") /\ Forgets(s)
    /\ UNCHANGED <<ports, socketPath, listening, private, key, cert>>

ServerKilled(s) ==
    /\ where[s] # "down" /\ where' = [where EXCEPT ![s] = "down"] /\ Forgets(s)
    /\ lockHolder' = (IF lockHolder = s THEN NoServer ELSE lockHolder)
    /\ ports' = Unbound(s) /\ listening' = Silenced(s)
    /\ UNCHANGED <<blocked, socketPath, private, key, cert>> /\ UNCHANGED TextParts

--------------------------------------------------------------------------
StartupNext ==
    /\ UNCHANGED address
    /\ \E s \in Servers :
        \/ Acquire(s) \/ EnsureDefaultHelpFile(s) \/ LoadAdministrators(s)
        \/ PublishAdminBootstrap(s) \/ GenerateCertificate(s) \/ WriteKey(s) \/ WriteCert(s)
        \/ LoadTLSCertificate(s) \/ CreateServices(s)
        \/ ListenAt(s, "relay", "look") \/ LookAtPath(s) \/ ProbeSocket(s) \/ RecheckPath(s)
        \/ RemoveStale(s) \/ BindSocket(s) \/ SecureSocket(s) \/ ListenAt(s, "web", "assemble")
        \/ AssembleServer(s)
        \/ Ends(s) \/ CloseListener(s) \/ CompareSocket(s) \/ UnlinkSocket(s) \/ ClosePorts(s)
        \/ ReleaseLock(s) \/ ServerKilled(s)

StartupSpec == StartupInit /\ [][StartupNext]_startupVars

--------------------------------------------------------------------------
(* A server that serves is the one its administrator reaches: the path     *)
(* leads to its own socket, which is private, and both ports are its own,  *)
(* whatever other servers of the bot did while they started, failed, were  *)
(* killed or removed the socket they had.                                  *)
ServerReachable ==
    \A s \in Servers : where[s] = "serving" =>
        /\ socketPath # NoInode /\ listening[socketPath] = s /\ socketPath \in private
        /\ \A p \in PortNames : ports[p][address[s]] = s

(* What an earlier server left, wherever it was stopped or killed, never   *)
(* keeps a later one from starting: no stale socket, taken port or half a  *)
(* certificate is the reason a start that has the lock ends.               *)
NothingLeftBlocks == \A s \in Servers : blocked[s] = "no"
=============================================================================
