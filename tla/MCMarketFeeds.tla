--------------------------- MODULE MCMarketFeeds ----------------------------
(* Small instances of DepthBook, QuoteStream, ThresholdAlert and Scheduler *)
(* for TLC: what the markets say, and the loop it wakes.  They share       *)
(* nothing, so a behaviour moves one of them.                              *)
EXTENDS DepthBook, QuoteStream, ThresholdAlert, Scheduler

VARIABLE feed

\* One of the scheduler's jobs at a time.
MCJobs == {j \in Job : running[j] # "none"}

MCInit ==
    /\ feed \in {"depth", "quotes", "alert", "loop"}
    /\ DepthInit /\ (feed # "depth" => real = <<{}>>) /\ real[1] \in {{}, {1, 3}, {1, 2, 3}}
    /\ QuoteInit /\ (feed # "quotes" => skew = 0)
    /\ ThresholdInit /\ (feed # "alert" => setting = CHOOSE t \in Threshold : TRUE)
    /\ SchedulerInit /\ IF feed = "loop" THEN MCJobs \in {{j} : j \in Job}
                        ELSE MCJobs = {} /\ ~actual.intent

MCNext ==
    \/ feed = "depth" /\ DepthNext /\ UNCHANGED <<feed, quoteVars, thresholdVars, schedulerVars>>
    \/ feed = "quotes" /\ QuoteNext /\ UNCHANGED <<feed, depthVars, thresholdVars, schedulerVars>>
    \/ feed = "alert" /\ ThresholdNext /\ UNCHANGED <<feed, depthVars, quoteVars, schedulerVars>>
    \/ feed = "loop" /\ SchedulerNext /\ UNCHANGED <<feed, depthVars, quoteVars, thresholdVars>>

MCSpec == MCInit /\ [][MCNext]_<<feed, depthVars, quoteVars, thresholdVars, schedulerVars>>

TypeOK == DepthTypeOK /\ QuoteTypeOK

=============================================================================
