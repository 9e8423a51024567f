---------------------------- MODULE MCLogPipeline ----------------------------
\* A rotated file with one subscriber, the kernel log and the journal of the
\* kubelet with two.
EXTENDS LogPipeline
MCSources == {"dmesg", "messages", "kubelet"}
MCContents == [x \in MCSources |->
    CASE x = "dmesg" -> <<{"ioErrorBufferIO"}, {"DMA_ERROR", "NC_UNCORRECTABLE_ERROR"}, {"kernelBug"}>>
      [] x = "messages" -> <<{}, {"etcHostsIsDir"}, {}>>
      [] x = "kubelet" -> <<{"podStuckTerminating"}, {"diskUsageSlow"}, {"enteredFailedState"}>>]
=============================================================================
