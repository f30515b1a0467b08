-------------------------- MODULE MCSeriesProgress --------------------------
EXTENDS SeriesProgress, TLC

CONSTANTS mapA, mapB, mapC

BestOfThree == <<mapA, mapB, mapC>>
EntrantSymmetry == Permutations(Entrants)
=============================================================================
