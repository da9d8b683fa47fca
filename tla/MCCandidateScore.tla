-------------------------- MODULE MCCandidateScore --------------------------
(***************************************************************************)
(* Two routers answer; is the better one ranked first?  A machine that     *)
(* hears one parent response at a time drives the pure operators of        *)
(* CandidateScore over their inputs.                                       *)
(***************************************************************************)
EXTENDS CandidateScore

CONSTANTS
  Rssis,     \* RSSI values
  Counts     \* link-quality counters of a parent response

VARIABLE response   \* the latest one: [lq3, lq2, lq1, rssi]

Responses == [lq3: Counts, lq2: Counts, lq1: Counts, rssi: Rssis]

\* From the weakest int8_t to the strongest RSSI a radio reports.
UsualRssis == {-128, -127, -71, -70, 0}

ScoreInit == response \in Responses

ScoreNext == response' \in Responses

ScoreSpec == ScoreInit /\ [][ScoreNext]_response

ResponseScore(r) == Score(ResponseMargin(r.lq3, r.lq2, r.lq1), r.rssi)

\* biparental_ed.cpp:302 calls the margin of a parent response "a conservative
\* 0..30-ish margin proxy so CandidateManager can rank" candidates.  A
\* response with at least as many neighbours of every quality, and no weaker
\* RSSI, is therefore never ranked below another one.
ResponsesRankedInOrder ==
  [][ ( /\ response.lq3 <= response'.lq3
        /\ response.lq2 <= response'.lq2
        /\ response.lq1 <= response'.lq1
        /\ response.rssi <= response'.rssi )
      => ResponseScore(response) <= ResponseScore(response') ]_response
=============================================================================
