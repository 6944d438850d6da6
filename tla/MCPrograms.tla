------------------------------ MODULE MCPrograms -----------------------------
(***************************************************************************)
(* Instances of the classes and programs that share no state with any      *)
(* other part: a behaviour runs one of them, and the others stay as they   *)
(* began.                                                                  *)
(***************************************************************************)
EXTENDS LRUCache, Singleton, QuickSort, Logger, Timer, EpollServer, EchoPair

CONSTANTS k1, k2, k3, t1, t2, t3, a1, a2, l1, l2, OtherTxt, v1, v2, v3

MCCapacities == {-1, 0, 1, 2}
MCElements == 1..3
MCGarbage == {-7, 0}

Programs == {"cache", "singleton", "sort", "logger", "timer", "TcpEpoll", "pair"}

VARIABLE program

allVars == <<program, cacheVars, singletonVars, sortVars, loggerVars, timerVars,
             epollVars, pairVars>>

\* The initial states of the others are fixed, so as not to multiply them.
Init ==
    /\ program \in Programs
    /\ CacheInit /\ (program = "cache" \/ capacity = 0)
    /\ SingletonInit
    /\ IF program = "sort" THEN SortInit
       ELSE /\ input = [k \in {} |-> 0] /\ nums = input
            /\ stack = <<>> /\ loop = "call" /\ i = 0 /\ j = 0
    /\ LoggerInit
    /\ TimerInit /\ (program = "timer" \/ total_time_ = 0)
    /\ EpollInit /\ (program = "TcpEpoll" \/ port = "zero")
    /\ PairInit /\ (program = "pair" \/ (demo = "demo1" /\ port8888 = "free"))

Next ==
    /\ program' = program
    /\ \/ /\ program = "cache" /\ CacheNext
          /\ UNCHANGED <<singletonVars, sortVars, loggerVars,
                         timerVars, epollVars, pairVars>>
       \/ /\ program = "singleton" /\ SingletonNext
          /\ UNCHANGED <<cacheVars, sortVars, loggerVars,
                         timerVars, epollVars, pairVars>>
       \/ /\ program = "sort" /\ SortNext
          /\ UNCHANGED <<cacheVars, singletonVars, loggerVars,
                         timerVars, epollVars, pairVars>>
       \/ /\ program = "logger" /\ LoggerNext
          /\ UNCHANGED <<cacheVars, singletonVars, sortVars,
                         timerVars, epollVars, pairVars>>
       \/ /\ program = "timer" /\ TimerNext
          /\ UNCHANGED <<cacheVars, singletonVars, sortVars,
                         loggerVars, epollVars, pairVars>>
       \/ /\ program = "TcpEpoll" /\ EpollNext
          /\ UNCHANGED <<cacheVars, singletonVars, sortVars,
                         loggerVars, timerVars, pairVars>>
       \/ /\ program = "pair" /\ PairNext
          /\ UNCHANGED <<cacheVars, singletonVars, sortVars,
                         loggerVars, timerVars, epollVars>>

\* quick_sort, the epoll server and the programs of the pairs run on, and
\* clients read their replies; nobody has to call the classes, to type or to
\* leave.
Spec ==
    /\ Init /\ [][Next]_allVars
    /\ WF_sortVars(program = "sort" /\ SortNext)
    /\ WF_epollVars(program = "TcpEpoll" /\ EpollLoop)
    /\ \A c \in Visitors : WF_epollVars(program = "TcpEpoll" /\ TakeAnswer(c))
    /\ WF_pairVars(program = "pair" /\ PairServer)
    /\ WF_pairVars(program = "pair" /\ PairUser)

\* The types of all of them.
TypesOK ==
    /\ CacheTypeOK /\ SingletonTypeOK /\ SortTypeOK /\ LoggerTypeOK /\ TimerTypeOK
    /\ EpollTypeOK /\ PairTypeOK

\* quick_sort returns, whatever it was given.
SortReturns == <>(program = "sort" => stack = <<>>)

=============================================================================
