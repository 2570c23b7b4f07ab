---------------------------- MODULE MCInputMovie ----------------------------
EXTENDS InputMovie

MCTimelines == { <<TRUE, FALSE>>, <<FALSE, TRUE>> }
=============================================================================
