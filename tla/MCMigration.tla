---------------------------- MODULE MCMigration ----------------------------
(* One sound repository and those that differ from it in one respect.      *)
EXTENDS Migration, TLC

CONSTANTS e1, e2

Sound == [target |-> 3, floor |-> None, engines |-> None, npmrc |-> FALSE, spec |-> "range",
          typescript |-> "range", override |-> "none", manager |-> "npm"]
Unsound ==
    {[Sound EXCEPT !.target = v] : v \in {None, NonRegistry, 2, 4, 5}}
    \cup {[Sound EXCEPT !.floor = v] : v \in {NonRegistry, 4, 6}}
    \cup {[Sound EXCEPT !.engines = v] : v \in {NonRegistry, 18, 22, 24}}
    \cup {[Sound EXCEPT !.spec = s] : s \in {"alias", "git"}}
    \cup {[Sound EXCEPT !.typescript = s] : s \in {None, "tag", "alias"}}
    \cup {[Sound EXCEPT !.override = o] : o \in {"registry", "elsewhere", "typescript"}}
    \cup {[Sound EXCEPT !.npmrc = TRUE], [Sound EXCEPT !.manager = "yarn"]}
MCLocks ==
    {None, [deps |-> "registry", typescript |-> 1, tarball |-> "typescript"],
     [deps |-> "registry", typescript |-> None, tarball |-> "other"],
     [deps |-> "elsewhere", typescript |-> 1, tarball |-> "typescript"],
     [deps |-> "registry", typescript |-> 2, tarball |-> "other"]}

SoundLock == [deps |-> "registry", typescript |-> 1, tarball |-> "typescript"]
MCRepositories ==
    {[pkg |-> pkg, lock |-> SoundLock, docker |-> "static"] : pkg \in Unsound}
    \cup {[pkg |-> Sound, lock |-> lock, docker |-> "static"] : lock \in MCLocks}
    \cup {[pkg |-> Sound, lock |-> SoundLock, docker |-> docker] : docker \in {"pinned", "foreign"}}
=============================================================================
