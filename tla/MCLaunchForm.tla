----------------------------- MODULE MCLaunchForm -----------------------------
EXTENDS LaunchForm
MCInputs == {-1, 0, 3, 1000}
============================================================================
